---- MODULE Spec2Model ----
(***************************************************************************)
(* Model of the calcium / blood-flow analysis scripts:                     *)
(*   - locate_spikes_peakutils            (src/ca_analysis/dff_tools.py)   *)
(*   - VascOccParser._get_params / _serialize_results and                  *)
(*     concat_vasc_occ_dataarrays                                          *)
(*                      (src/calcium_bflow_analysis/vasc_occ_parsing.py)   *)
(*   - VascOccAnalyzer._find_spikes  (src/ca_analysis/vasc_occ_analysis.py)*)
(*                                                                         *)
(* Conventions.  A numpy 1-D array is a TLA+ sequence; numpy index i is    *)
(* sequence position i+1, and every index that the program exposes (peak   *)
(* indices, cell indices) is kept 0-based as in the source.  A 2-D array   *)
(* is a sequence of rows.  Frame rates and thresholds are real numbers in  *)
(* the source; they are kept as exact fixed-point integers: a frame rate   *)
(* in hundredths of a Hz (2997 is 29.97 Hz), a threshold in percent.       *)
(***************************************************************************)
EXTENDS Integers, Sequences, FiniteSets, TLC

\* ------------------------------------------------------------------ bounds
\* longest row of the exhaustively enumerated one-row matrices
MaxLen == 5
\* largest sample value of the enumerated matrices (samples are 0..MaxVal)
MaxVal == 2
\* longest row of the exhaustively enumerated two-row matrices
MaxLenMulti == 2

\* ----------------------------------------------------------- small helpers
SetMax(S) == CHOOSE x \in S : \A y \in S : y <= x
SetMin(S) == CHOOSE x \in S : \A y \in S : x <= y

RowsOfLen(n, top) == [1..n -> 0..top]

\* ================================================================ peakutils
\* np.diff(y): dy[j] = y[j+1] - y[j]
Diff(y) == [j \in 1..(Len(y) - 1) |-> y[j + 1] - y[j]]

\* the chain of consecutive zero differences that position j belongs to
RECURSIVE PlateauStart(_, _)
PlateauStart(dy, j) ==
    IF j = 1 \/ dy[j - 1] # 0 THEN j ELSE PlateauStart(dy, j - 1)
RECURSIVE PlateauEnd(_, _)
PlateauEnd(dy, j) ==
    IF j = Len(dy) \/ dy[j + 1] # 0 THEN j ELSE PlateauEnd(dy, j + 1)

\* "propagate left and right values successively to fill all plateau pixels"
FillPlateaus(dy) ==
    [j \in 1..Len(dy) |->
        IF dy[j] # 0 THEN dy[j]
        ELSE LET a == PlateauStart(dy, j)
                 b == PlateauEnd(dy, j)
             IN  IF a = 1 THEN dy[b + 1]
                 ELSE IF b = Len(dy) THEN dy[a - 1]
                 ELSE IF 2 * j < a + b THEN dy[a - 1]
                 ELSE dy[b + 1]]

\* a signal is totally flat when every first-order difference is zero
IsFlat(y) == \A j \in 1..(Len(y) - 1) : y[j + 1] = y[j]

RowMax(y) == SetMax({y[j] : j \in 1..Len(y)})
RowMin(y) == SetMin({y[j] : j \in 1..Len(y)})

\* thres * (np.max(y) - np.min(y)) + np.min(y), times 100 (thres in percent)
ScaledThres(y, thres) == thres * (RowMax(y) - RowMin(y)) + 100 * RowMin(y)

\* np.where((hstack([dy, 0]) < 0) & (hstack([0, dy]) > 0) & (y > thres)),
\* as 0-based indices; t is the threshold times 100
LocalMaxima(y, dy, t) ==
    LET n == Len(y)
        right(q) == IF q <= n - 1 THEN dy[q] ELSE 0
        left(q)  == IF q >= 2 THEN dy[q - 1] ELSE 0
    IN  {q - 1 : q \in {r \in 1..n : right(r) < 0 /\ left(r) > 0 /\ 100 * y[r] > t}}

\* the local maxima above the threshold (the differences and the threshold
\* are computed once, as the library does)
CandidatePeaks(y, thres) ==
    UNION {LocalMaxima(y, c.dy, c.t) :
              c \in {[dy |-> FillPlateaus(Diff(y)), t |-> ScaledThres(y, thres)]}}

\* peaks[np.argsort(y[peaks])][::-1]: highest first; equal heights keep the
\* order of a stable ascending sort, reversed, so the later index comes first
RECURSIVE HighestFirst(_, _)
HighestFirst(y, P) ==
    IF P = {} THEN << >>
    ELSE LET top == SetMax({y[p + 1] : p \in P})
             h   == SetMax({p \in P : y[p + 1] = top})
         IN  <<h>> \o HighestFirst(y, P \ {h})

\* one pass of "for peak in highest": a peak still standing clears its window
RECURSIVE RemoveClose(_, _, _)
RemoveClose(order, standing, min_dist) ==
    IF order = << >> THEN standing
    ELSE LET peak == Head(order)
         IN  IF peak \in standing
             THEN RemoveClose(Tail(order),
                      {p \in standing : p < peak - min_dist \/ p > peak + min_dist}
                          \cup {peak},
                      min_dist)
             ELSE RemoveClose(Tail(order), standing, min_dist)

\* a detector that forgets the minimum distance
IndexesNoMinDist(y, thres, min_dist) == CandidatePeaks(y, thres)

\* peakutils.indexes(y, thres, min_dist) for a signal that is not flat
Indexes(y, thres, min_dist) ==
    LET peaks == CandidatePeaks(y, thres)
    IN  IF Cardinality(peaks) > 1 /\ min_dist > 1
        THEN RemoveClose(HighestFirst(y, peaks), peaks, min_dist)
        ELSE peaks

\* Python's round() of a frame rate given in hundredths: to the nearest
\* integer, a tie going to the even one
PyRound(f) ==
    LET q == f \div 100
        r == f % 100
    IN  IF r < 50 THEN q
        ELSE IF r > 50 THEN q + 1
        ELSE IF q % 2 = 0 THEN q ELSE q + 1

\* a min_dist that rounds instead of truncating
MinDistRounded(f) == PyRound(f)

\* int(fps) of a frame rate given in hundredths: truncation toward zero
MinDist(f) == f \div 100

\* ============================================================ numpy arrays
\* The arrays the detector touches live in a heap (a sequence of 2-D arrays)
\* and the program's names hold positions in it, so that two names bound to
\* the same array are distinguishable from two equal arrays.
ZeroMatrix(m) == [r \in 1..Len(m) |-> [c \in 1..Len(m[r]) |-> 0]]

\* binding all_spikes to the input itself instead of to a fresh array
ZerosLikeAliased(h, d) == [heap |-> h, id |-> d]

\* np.zeros_like(data): a fresh array of the shape of heap[d], all zero
ZerosLike(h, d) == [heap |-> Append(h, ZeroMatrix(h[d])), id |-> Len(h) + 1]

\* all_spikes[row, idx] = 1 (row and idx 0-based)
MarkRow(m, r, idx) ==
    [m EXCEPT ![r + 1] = [c \in 1..Len(m[r + 1]) |-> IF (c - 1) \in idx THEN 1 ELSE @[c]]]

\* What "idx = peakutils.indexes(cell, ...); all_spikes[row, idx] = 1" does to
\* one row.  np.max / np.min of an empty signal raise ValueError.  For a
\* totally flat signal peakutils returns an empty array early: releases with
\* plateau handling (1.1.0 on) build it as np.array([]), whose dtype is
\* float64, and numpy refuses any float array as an index (IndexError);
\* earlier releases return the integer result of np.where.  Which of the two
\* holds is a property of the installed library (flat_int).
RowOutcome(cell, thres, md, flatInt) ==
    IF Len(cell) = 0 THEN [raised |-> "ValueError", idx |-> {}]
    ELSE IF IsFlat(cell)
         THEN IF flatInt THEN [raised |-> "none", idx |-> {}]
              ELSE [raised |-> "IndexError", idx |-> {}]
         ELSE [raised |-> "none", idx |-> Indexes(cell, thres, md)]

\* ====================================================================== state
VARIABLES
    \* --- locate_spikes_peakutils and its caller
    heap,        \* the arrays in memory
    data,        \* position of the input matrix in heap
    all_spikes,  \* position of the matrix being filled (0: not bound)
    fps,         \* frame rate argument, in hundredths of a Hz
    thresh,      \* threshold argument, in percent
    min_dist,    \* int(fps) (-1: not computed yet)
    row,         \* loop cursor of "for row, cell in enumerate(data)"
    dpc,         \* "off" | "ready" | "loop" | "raised"
    err,         \* name of the exception that ended the call, or "none"
    returned,    \* the matrices returned so far, as they were on return
    orig         \* the input matrix as the caller built it

\* --- the installed peakutils: TRUE when it returns an integer array for a
\* flat signal (releases before 1.1.0), FALSE when it returns np.array([])
VARIABLE flat_int

varsDetect == <<heap, data, all_spikes, fps, thresh, min_dist, row, dpc, err,
                returned, orig>>
varsLib == <<flat_int>>

\* -------------------------------------------------------------- the inputs
\* the matrix of the worked example: 2 cells x 10 frames
ScenarioMatrix == << <<0, 0, 5, 0, 0, 0, 5, 0, 0, 0>>,
                     <<0, 0, 0, 0, 0, 0, 0, 0, 0, 0>> >>
ScenarioRow0 == << <<0, 0, 5, 0, 0, 0, 5, 0, 0, 0>> >>

Matrices ==
    { << >> }
    \cup UNION {{<<r>> : r \in RowsOfLen(n, MaxVal)} : n \in 0..MaxLen}
    \cup UNION {{<<r, s>> : r \in RowsOfLen(n, MaxVal), s \in RowsOfLen(n, MaxVal)}
                    : n \in 0..MaxLenMulti}

\* frame rates: below 1 Hz, 1.5, 2.5, 3.0 and 29.97 Hz
FpsChoices == {50, 150, 250, 300, 2997}

\* default of the thresh parameter of locate_spikes_peakutils (0.65)
DefaultThresh == 65

DetectInputs ==
    [data : Matrices, fps : FpsChoices, thresh : {DefaultThresh}]
    \cup [data : {ScenarioMatrix, ScenarioRow0}, fps : {300}, thresh : {50}]

InitDetect ==
    \E inp \in DetectInputs :
        /\ heap = <<inp.data>>
        /\ data = 1
        /\ orig = inp.data
        /\ fps = inp.fps
        /\ thresh = inp.thresh
        /\ all_spikes = 0
        /\ min_dist = -1
        /\ row = 0
        /\ dpc = "ready"
        /\ err = "none"
        /\ returned = << >>

IdleDetect ==
    /\ heap = << >> /\ data = 0 /\ orig = << >> /\ fps = 0 /\ thresh = 0
    /\ all_spikes = 0 /\ min_dist = -1 /\ row = 0
    /\ dpc = "off" /\ err = "none" /\ returned = << >>

\* ---------------------------------------------------- locate_spikes_peakutils
\* the caller calls the detector, and once more on the same matrix
Calls == {0, 1}

\* lines 53-55: the assert, zeros_like and int(fps)
LocateEnter ==
    /\ dpc = "ready"
    /\ Len(returned) \in Calls
    /\ IF Len(heap[data]) = 0
       THEN /\ dpc' = "raised"
            /\ err' = "AssertionError"
            /\ UNCHANGED <<heap, all_spikes, min_dist, row>>
       ELSE LET z == ZerosLike(heap, data)
            IN  /\ heap' = z.heap
                /\ all_spikes' = z.id
                /\ min_dist' = MinDist(fps)
                /\ row' = 0
                /\ dpc' = "loop"
                /\ UNCHANGED err
    /\ UNCHANGED <<data, fps, thresh, returned, orig>>

\* lines 56-58: one iteration of the loop over the cells
LocateRow ==
    /\ dpc = "loop"
    /\ row < Len(heap[data])
    /\ \E out \in {RowOutcome(heap[data][row + 1], thresh, min_dist, flat_int)} :
           IF out.raised # "none"
           THEN /\ dpc' = "raised"
                /\ err' = out.raised
                /\ UNCHANGED <<heap, row>>
           ELSE /\ heap' = [heap EXCEPT ![all_spikes] = MarkRow(@, row, out.idx)]
                /\ row' = row + 1
                /\ UNCHANGED <<dpc, err>>
    /\ UNCHANGED <<data, all_spikes, fps, thresh, min_dist, returned, orig>>

\* line 60: return all_spikes
LocateReturn ==
    /\ dpc = "loop"
    /\ row = Len(heap[data])
    /\ returned' = Append(returned, heap[all_spikes])
    /\ dpc' = "ready"
    /\ UNCHANGED <<heap, data, all_spikes, fps, thresh, min_dist, row, err, orig>>

\* ============================================================ VascOccParser
\* more bounds: the parser's inputs
\* largest enumerated frames_before_stim
MaxBefore == 2
\* largest enumerated len_of_epoch_in_frames
MaxDuring == 2
\* largest enumerated framesPerSlice of a recording
MaxFrames == 4
\* most rows of data_files
MaxFiles == 2

\* values the except branch of _get_params assigns
FallbackFramesAfter == 1000
FallbackFps == 5831

VARIABLES
    frames_before_stim,      \* constructor argument
    len_of_epoch_in_frames,  \* constructor argument
    self_fps,                \* self.fps, hundredths of a Hz
    num_of_channels,
    frames_after_stim,
    start_time,              \* "mtime" (a date string) or "None"
    timestamps,              \* np.arange(n) / fps, or None
    unset,                   \* the init=False attributes never assigned so far
    list_of_sliced_fluo,     \* time-axis length of every fused record so far
    n_files,                 \* number of rows of data_files
    cur_frames,              \* frames really held by the recording of the row
                             \* last given to _get_params (-1: none yet)
    warned,                  \* warnings.warn was called for the last row
    ppc,                     \* "off" | "rows" | "exited" | "gone" | "raised"
    perr,                    \* exception that ended the parser, or "none"
    disk                     \* attrs of the file written by _serialize_results

varsParser == <<frames_before_stim, len_of_epoch_in_frames, self_fps,
                num_of_channels, frames_after_stim, start_time, timestamps,
                unset, list_of_sliced_fluo, n_files, cur_frames, warned, ppc,
                perr, disk>>

VARIABLES
    with_colabeling,         \* constructor argument
    row_params,              \* per row processed: what _get_params left in
                             \* self.fps and self.frames_after_stim for it
    disk_keys                \* attribute keys of the file written

varsSerial == <<with_colabeling, row_params, disk_keys>>

NoTimestamps == [k |-> "None", n |-> 0, fps |-> 0]
Arange(n, f) == [k |-> "arange", n |-> n, fps |-> f]

NoAttrs == [written |-> FALSE, fps |-> 0, frames_before_occ |-> 0,
            frames_during_occ |-> 0, frames_after_occ |-> 0]

\* What tifffile hands to _get_params for one recording.  kind:
\*   "ok"                every key present and well typed
\*   "no_metadata"       scanimage_metadata is None (TypeError, line 140)
\*   "channels_scalar"   channelsActive is a number, len() raises TypeError
\*   "frames_not_number" framesPerSlice is None, the subtraction raises TypeError
\*   "key_missing"       a key is absent: KeyError, which nothing catches
MetaKinds == {"ok", "no_metadata", "channels_scalar", "frames_not_number",
              "key_missing"}
MetaFps == {150, 2997}
Metas == [kind : MetaKinds, fps : MetaFps, channels : {1, 2},
          frames : (1..MaxFrames) \cup {200}]

\* the except TypeError branch, lines 153-158
Fallback(p) ==
    [p EXCEPT !.start_time = "None",
              !.timestamps = NoTimestamps,
              !.frames_after_stim = FallbackFramesAfter,
              !.fps = FallbackFps,
              !.unset = @ \ {"start_time", "timestamps", "frames_after_stim", "fps"}]

\* frames_after_stim of the try branch, lines 145-147
FramesAfter(num_of_frames, before, during) == num_of_frames - (before + during)

\* _get_params: p holds the attributes it assigns
GetParams(p, before, during, meta) ==
    LET p1 == [p EXCEPT !.fps = meta.fps, !.unset = @ \ {"fps"}]
        p2 == [p1 EXCEPT !.num_of_channels = meta.channels,
                         !.unset = @ \ {"num_of_channels"}]
        p3 == [p2 EXCEPT !.frames_after_stim = FramesAfter(meta.frames, before, during),
                         !.start_time = "mtime",
                         !.timestamps = Arange(meta.frames, meta.fps),
                         !.unset = @ \ {"frames_after_stim", "start_time", "timestamps"}]
    IN  CASE meta.kind = "key_missing" -> [p |-> p, raised |-> "KeyError", warned |-> FALSE]
          [] meta.kind = "no_metadata" -> [p |-> Fallback(p), raised |-> "none", warned |-> TRUE]
          [] meta.kind = "channels_scalar" -> [p |-> Fallback(p1), raised |-> "none", warned |-> TRUE]
          [] meta.kind = "frames_not_number" -> [p |-> Fallback(p2), raised |-> "none", warned |-> TRUE]
          [] OTHER -> [p |-> p3, raised |-> "none", warned |-> FALSE]

\* the keys of sliced_fluo.attrs after lines 124-129, wrongly with the
\* co-labeled indices whatever with_colabeling is
SerializeKeysAlways(colabeling) ==
    {"fps", "frames_before_occ", "frames_during_occ", "frames_after_occ", "colabeled"}

\* the keys of sliced_fluo.attrs after lines 124-129
SerializeKeys(colabeling) ==
    {"fps", "frames_before_occ", "frames_during_occ", "frames_after_occ"}
        \cup (IF colabeling THEN {"colabeled"} ELSE {})

\* the attributes _serialize_results stores, lines 124-127
SerializeAttrs(f, before, during, after) ==
    [written |-> TRUE, fps |-> f, frames_before_occ |-> before,
     frames_during_occ |-> during, frames_after_occ |-> after]

InitParser ==
    /\ frames_before_stim \in (0..MaxBefore) \cup {100}
    /\ len_of_epoch_in_frames \in (0..MaxDuring) \cup {50}
    /\ n_files \in 1..MaxFiles
    /\ self_fps = 0 /\ num_of_channels = 0 /\ frames_after_stim = 0
    /\ start_time = "None" /\ timestamps = NoTimestamps
    /\ unset = {"fps", "num_of_channels", "frames_after_stim", "start_time", "timestamps"}
    /\ list_of_sliced_fluo = << >>
    /\ cur_frames = -1
    /\ warned = FALSE
    /\ ppc = "rows"
    /\ perr = "none"
    /\ disk = NoAttrs
    /\ with_colabeling \in BOOLEAN
    /\ row_params = << >>
    /\ disk_keys = {}

IdleParser ==
    /\ frames_before_stim = 0 /\ len_of_epoch_in_frames = 0 /\ n_files = 0
    /\ self_fps = 0 /\ num_of_channels = 0 /\ frames_after_stim = 0
    /\ start_time = "None" /\ timestamps = NoTimestamps /\ unset = {}
    /\ list_of_sliced_fluo = << >> /\ cur_frames = -1 /\ warned = FALSE
    /\ ppc = "off" /\ perr = "none" /\ disk = NoAttrs
    /\ with_colabeling = FALSE /\ row_params = << >> /\ disk_keys = {}

\* one iteration of the loop of __run_with_analog, lines 85-110
RunRow ==
    /\ ppc = "rows"
    /\ Len(list_of_sliced_fluo) < n_files
    /\ \E meta \in Metas :
         LET p == [fps |-> self_fps, num_of_channels |-> num_of_channels,
                   frames_after_stim |-> frames_after_stim,
                   start_time |-> start_time, timestamps |-> timestamps,
                   unset |-> unset]
             g == GetParams(p, frames_before_stim, len_of_epoch_in_frames, meta)
         IN  /\ self_fps' = g.p.fps
             /\ num_of_channels' = g.p.num_of_channels
             /\ frames_after_stim' = g.p.frames_after_stim
             /\ start_time' = g.p.start_time
             /\ timestamps' = g.p.timestamps
             /\ unset' = g.p.unset
             /\ warned' = g.warned
             /\ cur_frames' = meta.frames
             /\ IF g.raised # "none"
                THEN /\ ppc' = "raised"
                     /\ perr' = g.raised
                     /\ UNCHANGED <<list_of_sliced_fluo, row_params>>
                ELSE /\ list_of_sliced_fluo' = Append(list_of_sliced_fluo, meta.frames)
                     /\ row_params' = Append(row_params,
                            [fps |-> g.p.fps,
                             frames_after_stim |-> g.p.frames_after_stim])
                     /\ UNCHANGED <<ppc, perr>>
    /\ UNCHANGED <<frames_before_stim, len_of_epoch_in_frames, n_files, disk,
                   with_colabeling, disk_keys>>

\* lines 111-117: load the co-labeled indices when asked to (the assert of
\* line 167 may fail), concatenate, then _serialize_results, lines 119-132
MergeAndSerialize ==
    /\ ppc = "rows"
    /\ Len(list_of_sliced_fluo) = n_files
    /\ \E loaded \in (IF with_colabeling THEN BOOLEAN ELSE {TRUE}) :
         IF loaded
         THEN /\ disk' = SerializeAttrs(self_fps, frames_before_stim,
                                        len_of_epoch_in_frames, frames_after_stim)
              /\ disk_keys' = SerializeKeys(with_colabeling)
              /\ ppc' = "exited"
              /\ UNCHANGED perr
         ELSE /\ ppc' = "raised"
              /\ perr' = "AssertionError"
              /\ UNCHANGED <<disk, disk_keys>>
    /\ UNCHANGED <<frames_before_stim, len_of_epoch_in_frames, self_fps,
                   num_of_channels, frames_after_stim, start_time, timestamps,
                   unset, list_of_sliced_fluo, n_files, cur_frames, warned,
                   with_colabeling, row_params>>

\* lines 268-269: run() has returned and the script ends; what the parser
\* held in memory is gone, the file it wrote stays
ParserExit ==
    /\ ppc = "exited"
    /\ ppc' = "gone"
    /\ frames_before_stim' = 0 /\ len_of_epoch_in_frames' = 0 /\ n_files' = 0
    /\ self_fps' = 0 /\ num_of_channels' = 0 /\ frames_after_stim' = 0
    /\ start_time' = "None" /\ timestamps' = NoTimestamps /\ unset' = {}
    /\ list_of_sliced_fluo' = << >> /\ cur_frames' = -1 /\ warned' = FALSE
    /\ with_colabeling' = FALSE /\ row_params' = << >>
    /\ UNCHANGED <<perr, disk, disk_keys>>

\* ========================================================== VascOccAnalyzer
\* thresh of _find_spikes (0.8), in percent
FindSpikesThresh == 80

VARIABLES
    attrs,                \* self.data.attrs of the loaded DataArray
    dff,                  \* the matrix given to _find_spikes
    an_spikes,            \* all_spikes of _find_spikes
    an_row,               \* loop cursor
    fs_min_dist,          \* min_dist of _find_spikes (-1: not computed)
    norm_factor_during,
    norm_factor_after,
    idx_section1,
    idx_section2,
    idx_section3,
    num_of_spikes,        \* the returned table, one record per cell
    apc,                  \* "off" | "loaded" | "loop" | "returned" | "raised"
    aerr

varsAnalyzer == <<attrs, dff, an_spikes, an_row, fs_min_dist, norm_factor_during,
                  norm_factor_after, idx_section1, idx_section2, idx_section3,
                  num_of_spikes, apc, aerr>>

\* ---- float64 results of the normalisation.  The attributes come back from
\* the netCDF file as numpy integer scalars, whose true division does not
\* raise on a zero divisor: it yields inf, -inf or nan (with a RuntimeWarning).
\* A finite value is kept exact, as the fraction n / d.
Fin(n, d) == [k |-> "fin", n |-> n, d |-> d]
NonFin(kind) == [k |-> kind, n |-> 0, d |-> 1]

NpDivide(a, b) ==
    IF b # 0 THEN Fin(a, b)
    ELSE IF a > 0 THEN NonFin("inf")
    ELSE IF a < 0 THEN NonFin("-inf")
    ELSE NonFin("nan")

\* len(...) * norm_factor: a Python int times a float64
Scale(count, v) ==
    CASE v.k = "fin" -> Fin(count * v.n, v.d)
      [] v.k = "nan" -> NonFin("nan")
      [] OTHER -> IF count = 0 THEN NonFin("nan")
                  ELSE IF count > 0 THEN v
                  ELSE NonFin(IF v.k = "inf" THEN "-inf" ELSE "inf")

\* the attribute keys _find_spikes reads, lines 76-81
FindSpikesKeys == {"fps", "frames_before_occ", "frames_during_occ", "frames_after_occ"}

\* an after epoch that leaves out its first frame
CountAfterStrict(idx, summed_after_occ) ==
    Cardinality({i \in idx : i > summed_after_occ})

\* len(idx[idx < before_occ])
CountBefore(idx, before_occ) == Cardinality({i \in idx : i < before_occ})
\* a during epoch whose bounds are shifted by one frame
CountDuringShifted(idx, before_occ, summed_after_occ) ==
    Cardinality({i \in idx : i > before_occ /\ i <= summed_after_occ})

\* len(idx[(idx >= before_occ) & (idx < summed_after_occ)])
CountDuring(idx, before_occ, summed_after_occ) ==
    Cardinality({i \in idx : i >= before_occ /\ i < summed_after_occ})
\* len(idx[idx >= summed_after_occ])
CountAfter(idx, summed_after_occ) == Cardinality({i \in idx : i >= summed_after_occ})

\* norm_factor_during and norm_factor_after, lines 80-81
NormFactorDuring(a) == NpDivide(a.frames_before_occ, a.frames_during_occ)
NormFactorAfter(a) == NpDivide(a.frames_before_occ, a.frames_after_occ)

\* pd.DataFrame({'before': ..., 'during': ..., 'after': ...}), lines 91-92
MakeTable(s1, s2, s3) ==
    [r \in 1..Len(s1) |-> [before |-> s1[r], during |-> s2[r], after |-> s3[r]]]

\* ---- the matrices given to _find_spikes
\* a trace that is 1 at the given 0-based frames and 0 elsewhere
Trace(n, at) == [c \in 1..n |-> IF (c - 1) \in at THEN 1 ELSE 0]

\* the worked example: 200 frames, 2 spikes before frame 100, 1 in
\* [100, 150), 1 after; and a second cell with 1, 2 and 2 spikes
ScenarioDff == << Trace(200, {10, 50, 120, 170}), Trace(200, {30, 110, 130, 160, 190}) >>

DffChoices ==
    UNION {{<<r>> : r \in RowsOfLen(n, 1)} : n \in 0..MaxLen} \cup {ScenarioDff}

IdleAnalyzer ==
    /\ attrs = NoAttrs /\ dff = << >> /\ an_spikes = << >> /\ an_row = 0
    /\ fs_min_dist = -1
    /\ norm_factor_during = NonFin("nan") /\ norm_factor_after = NonFin("nan")
    /\ idx_section1 = << >> /\ idx_section2 = << >> /\ idx_section3 = << >>
    /\ num_of_spikes = << >> /\ apc = "off" /\ aerr = "none"

\* run_extra_analysis, lines 43-47: another process opens the file the
\* parser wrote
LoadData ==
    /\ ppc = "gone"
    /\ apc = "off"
    /\ disk.written
    /\ attrs' = disk
    /\ \E d \in DffChoices : dff' = d
    /\ apc' = "loaded"
    /\ UNCHANGED <<an_spikes, an_row, fs_min_dist, norm_factor_during,
                   norm_factor_after, idx_section1, idx_section2, idx_section3,
                   num_of_spikes, aerr>>

\* _find_spikes, lines 72-82
FindEnter ==
    /\ apc = "loaded"
    /\ fs_min_dist' = MinDist(attrs.fps)
    /\ norm_factor_during' = NormFactorDuring(attrs)
    /\ norm_factor_after' = NormFactorAfter(attrs)
    /\ an_spikes' = ZeroMatrix(dff)
    /\ an_row' = 0
    /\ idx_section1' = << >> /\ idx_section2' = << >> /\ idx_section3' = << >>
    /\ apc' = "loop"
    /\ UNCHANGED <<attrs, dff, num_of_spikes, aerr>>

\* _find_spikes, lines 83-89: one cell
FindRow ==
    /\ apc = "loop"
    /\ an_row < Len(dff)
    /\ \E out \in {RowOutcome(dff[an_row + 1], FindSpikesThresh, fs_min_dist, flat_int)} :
       LET before_occ == attrs.frames_before_occ
           summed_after_occ == attrs.frames_before_occ + attrs.frames_during_occ
       IN  IF out.raised # "none"
           THEN /\ apc' = "raised"
                /\ aerr' = out.raised
                /\ UNCHANGED <<an_spikes, an_row, idx_section1, idx_section2,
                               idx_section3>>
           ELSE /\ an_spikes' = MarkRow(an_spikes, an_row, out.idx)
                /\ idx_section1' = Append(idx_section1, CountBefore(out.idx, before_occ))
                /\ idx_section2' = Append(idx_section2,
                       Scale(CountDuring(out.idx, before_occ, summed_after_occ),
                             norm_factor_during))
                /\ idx_section3' = Append(idx_section3,
                       Scale(CountAfter(out.idx, summed_after_occ), norm_factor_after))
                /\ an_row' = an_row + 1
                /\ UNCHANGED <<apc, aerr>>
    /\ UNCHANGED <<attrs, dff, fs_min_dist, norm_factor_during, norm_factor_after,
                   num_of_spikes>>

\* _find_spikes, lines 91-93
FindReturn ==
    /\ apc = "loop"
    /\ an_row = Len(dff)
    /\ num_of_spikes' = MakeTable(idx_section1, idx_section2, idx_section3)
    /\ apc' = "returned"
    /\ UNCHANGED <<attrs, dff, an_spikes, an_row, fs_min_dist, norm_factor_during,
                   norm_factor_after, idx_section1, idx_section2, idx_section3, aerr>>

\* ============================================== concat_vasc_occ_dataarrays
\* most records of an enumerated da_list
MaxRecords == 2
\* most cells of an enumerated record
MaxCells == 2

\* A DataArray with dims (epoch, neuron, time): its three coordinates and,
\* for its data, one tag per cell, <<k, j>> for cell j (0-based) of record k
\* (1-based), so that the place every input cell ends at can be read off.
DataArray(k, epoch, n, time) ==
    [epoch |-> epoch,
     neuron |-> [j \in 1..n |-> j - 1],
     time |-> time,
     data |-> [j \in 1..n |-> <<k, j - 1>>]]

TimeCoords == {<<0, 1>>, <<0, 1, 2>>}
EpochCoords == {<<"all", "run">>, <<"all", "stand">>, <<"all">>}

RecordShapes == [epoch : EpochCoords, n : 0..MaxCells, time : TimeCoords]

\* the list of the worked example: records of 3 and 5 cells
ScenarioShapes == << [epoch |-> <<"all", "run">>, n |-> 3, time |-> <<0, 1>>],
                     [epoch |-> <<"all", "run">>, n |-> 5, time |-> <<0, 1>>] >>

ShapeLists ==
    UNION {[1..m -> RecordShapes] : m \in 0..MaxRecords} \cup {ScenarioShapes}

DaList(shapes) ==
    [k \in 1..Len(shapes) |-> DataArray(k, shapes[k].epoch, shapes[k].n, shapes[k].time)]

VARIABLES
    da_list,         \* the argument
    new_da_list,
    num_of_neurons,
    crd_time,
    crd_epoch,
    cidx,            \* idx of "for idx, da in enumerate(da_list)"
    merged,          \* the returned DataArray
    cpc,             \* "off" | "ready" | "loop" | "returned" | "raised"
    cerr

varsConcat == <<da_list, new_da_list, num_of_neurons, crd_time, crd_epoch, cidx,
                merged, cpc, cerr>>

NoArray == [epoch |-> << >>, neuron |-> << >>, time |-> << >>, data |-> << >>]

\* a cell coordinate that restarts at 0 for every record
CrdNeuronRestarting(num, n) == [j \in 1..n |-> j - 1]

\* np.arange(num_of_neurons, num_of_neurons + len(da.neuron)), line 227
CrdNeuron(num, n) == [j \in 1..n |-> num + j - 1]

\* crd_time after lines 228-229
CrdTime(cur, da) == IF Len(da.time) # Len(cur) THEN da.time ELSE cur

\* the sorted sequence of the members of a set of numbers
RECURSIVE SortedSeq(_)
SortedSeq(S) == IF S = {} THEN << >> ELSE <<SetMin(S)>> \o SortedSeq(S \ {SetMin(S)})

RECURSIVE FlattenSeq(_)
FlattenSeq(ss) == IF ss = << >> THEN << >> ELSE Head(ss) \o FlattenSeq(Tail(ss))

\* xr.concat(new_da_list, dim="neuron"), line 239: the arrays follow one
\* another along neuron; the other indexes are aligned with an outer join,
\* which keeps an index all arrays share and otherwise takes the sorted union
XrConcat(das) ==
    LET times == {das[k].time : k \in 1..Len(das)}
    IN  [epoch |-> das[1].epoch,
         neuron |-> FlattenSeq([k \in 1..Len(das) |-> das[k].neuron]),
         time |-> IF Cardinality(times) = 1 THEN das[1].time
                  ELSE SortedSeq(UNION {{t[i] : i \in 1..Len(t)} : t \in times}),
         data |-> FlattenSeq([k \in 1..Len(das) |-> das[k].data])]

InitConcat ==
    /\ \E shapes \in ShapeLists : da_list = DaList(shapes)
    /\ new_da_list = << >>
    /\ num_of_neurons = 0
    /\ crd_time = << >>
    /\ crd_epoch = << >>
    /\ cidx = 0
    /\ merged = NoArray
    /\ cpc = "ready"
    /\ cerr = "none"

IdleConcat ==
    /\ da_list = << >> /\ new_da_list = << >> /\ num_of_neurons = 0
    /\ crd_time = << >> /\ crd_epoch = << >> /\ cidx = 0 /\ merged = NoArray
    /\ cpc = "off" /\ cerr = "none"

\* lines 222-225; da_list[0] of an empty list raises IndexError
ConcatEnter ==
    /\ cpc = "ready"
    /\ IF Len(da_list) = 0
       THEN /\ cpc' = "raised"
            /\ cerr' = "IndexError"
            /\ UNCHANGED <<crd_time, crd_epoch>>
       ELSE /\ crd_time' = da_list[1].time
            /\ crd_epoch' = da_list[1].epoch
            /\ cpc' = "loop"
            /\ UNCHANGED cerr
    /\ new_da_list' = << >>
    /\ num_of_neurons' = 0
    /\ cidx' = 0
    /\ UNCHANGED <<da_list, merged>>

\* lines 226-237, one record; xr.DataArray raises ValueError when a
\* coordinate is not as long as the dimension of the data it labels
ConcatIter ==
    /\ cpc = "loop"
    /\ cidx < Len(da_list)
    /\ LET da == da_list[cidx + 1]
           crd_neuron == CrdNeuron(num_of_neurons, Len(da.neuron))
           time == CrdTime(crd_time, da)
       IN  /\ crd_time' = time
           /\ IF Len(crd_epoch) # Len(da.epoch)
              THEN /\ cpc' = "raised"
                   /\ cerr' = "ValueError"
                   /\ UNCHANGED <<new_da_list, num_of_neurons, cidx>>
              ELSE /\ new_da_list' = Append(new_da_list,
                          [epoch |-> crd_epoch, neuron |-> crd_neuron,
                           time |-> time, data |-> da.data])
                   /\ num_of_neurons' = num_of_neurons + Len(da.neuron)
                   /\ cidx' = cidx + 1
                   /\ UNCHANGED <<cpc, cerr>>
    /\ UNCHANGED <<da_list, crd_epoch, merged>>

\* line 239
ConcatReturn ==
    /\ cpc = "loop"
    /\ cidx = Len(da_list)
    /\ merged' = XrConcat(new_da_list)
    /\ cpc' = "returned"
    /\ UNCHANGED <<da_list, new_da_list, num_of_neurons, crd_time, crd_epoch, cidx,
                   cerr>>

\* ================================================================ FileFinder
\* most files under the folders of an enumerated folder_globs
MaxListing == 3

\* A file name is a sequence of pieces, the stem one character a piece, so
\* that str(name)[:-4] and the glob patterns work on it as on the string:
\*   1.tif  1_results.npz  1_analog.txt  1_colabeled_idx.npy  1.nc
TifExt == <<".", "t", "i", "f">>
ResultsMarker == <<"_", "results.npz">>
AnalogMarker == <<"_", "analog", ".txt">>
ColabeledMarker == <<"_colabeled", "_idx", ".npy">>
NcExt == <<".nc">>
Markers == {TifExt, ResultsMarker, AnalogMarker, ColabeledMarker, NcExt}

\* the recordings "1" and "10": the first stem starts the second
FovStems == {<<"1">>, <<"1", "0">>}
FileNames == {s \o m : s \in FovStems, m \in Markers}

\* the files under one folder, in the order rglob walks them
Listings(n) ==
    {l \in UNION {[1..m -> FileNames] : m \in 0..n} :
        \A i \in 1..Len(l) : \A j \in 1..Len(l) : i # j => l[i] # l[j]}

\* a folder with a full group of each of the two recordings
ScenarioListing ==
    << <<"1", "0">> \o ResultsMarker, <<"1">> \o TifExt, <<"1", "0">> \o TifExt,
       <<"1">> \o ResultsMarker, <<"1", "0">> \o AnalogMarker,
       <<"1">> \o AnalogMarker, <<"1">> \o ColabeledMarker,
       <<"1", "0">> \o ColabeledMarker >>

\* a folder where recording "10", met first, has no analog file and recording
\* "1" has all its files
ScenarioSkipListing ==
    << <<"1", "0">> \o TifExt, <<"1", "0">> \o ResultsMarker, <<"1">> \o TifExt,
       <<"1">> \o ResultsMarker, <<"1">> \o AnalogMarker >>

\* folder_globs: one listing per key of the dict, in insertion order; the
\* glob string of every key is "*.tif"
FolderGlobs ==
    {<<a>> : a \in Listings(MaxListing)}
        \cup UNION {{<<a, b>> : b \in Listings(MaxListing - Len(a))}
                       : a \in Listings(MaxListing)}
        \cup {<<ScenarioListing>>, <<ScenarioSkipListing>>}

\* folder_globs of two keys, the second the parent of the first and holding
\* nothing but it: rglob yields the same files under both keys
OverlappingGlobs == {<<a, a>> : a \in Listings(MaxListing - 1)}

\* a Path: the key of folder_globs it was found under and its name
PathOf(k, name) == [folder |-> k, name |-> name]
NoFile == [folder |-> 0, name |-> << >>]

IsPrefix(p, s) == Len(p) <= Len(s) /\ SubSeq(s, 1, Len(p)) = p
EndsWith(s, t) == Len(t) <= Len(s) /\ SubSeq(s, Len(s) - Len(t) + 1, Len(s)) = t

\* fnmatch of a name against  prefix + "*" + mid + "*" + tail  (mid may be
\* empty, and then the pattern is  prefix + "*" + tail)
GlobMatch(name, prefix, mid, tail) ==
    /\ IsPrefix(prefix, name)
    /\ LET rest == SubSeq(name, Len(prefix) + 1, Len(name))
       IN  /\ EndsWith(rest, tail)
           /\ mid = << >> \/
                  \E i \in 1..(Len(rest) - Len(tail) - Len(mid) + 1) :
                      SubSeq(rest, i, i + Len(mid) - 1) = mid

\* folder.rglob(pattern): the matching files in traversal order
Rglob(k, listing, prefix, mid, tail) ==
    LET hit(name) == GlobMatch(name, prefix, mid, tail)
        names == SelectSeq(listing, hit)
    IN  [i \in 1..Len(names) |-> PathOf(k, names[i])]

\* str(file.name)[:-4], line 104
Fname(file) == SubSeq(file.name, 1, Len(file.name) - 4)

\* a try: next(folder.rglob(...)) except StopIteration block, for a
\* counterpart that is looked for only when it is required
CounterpartLenient(required, k, listing, prefix, mid, tail) ==
    LET found == Rglob(k, listing, prefix, mid, tail)
    IN  IF required /\ found # << >>
        THEN [stop |-> FALSE, file |-> Head(found)]
        ELSE [stop |-> FALSE, file |-> NoFile]

Counterpart(required, k, listing, prefix, mid, tail) ==
    LET found == Rglob(k, listing, prefix, mid, tail)
    IN  IF ~required THEN [stop |-> FALSE, file |-> NoFile]
        ELSE IF found = << >> THEN [stop |-> TRUE, file |-> NoFile]
        ELSE [stop |-> FALSE, file |-> Head(found)]

\* lines 129-131: TRUE when next(folder.rglob(fname + "*.nc")) finds a file
AlreadyAnalyzed(k, listing, fname) == Rglob(k, listing, fname, << >>, NcExt) # << >>

\* the four lists after lines 141-144
AppendGroupUnzipped(lists, file, analog_file, result_file, colabeled_file) ==
    [fluo |-> Append(lists.fluo, file),
     result |-> IF Len(lists.fluo) = 0 THEN lists.result
                ELSE Append(lists.result, result_file),
     colabeled |-> Append(lists.colabeled, colabeled_file),
     analog |-> Append(lists.analog, analog_file)]

AppendGroup(lists, file, analog_file, result_file, colabeled_file) ==
    [fluo |-> Append(lists.fluo, file),
     result |-> Append(lists.result, result_file),
     colabeled |-> Append(lists.colabeled, colabeled_file),
     analog |-> Append(lists.analog, analog_file)]

\* the body of the loop of line 102 for one file, lines 103-144
Visit(lists, file, listing, need_analog, need_colabeled) ==
    LET k == file.folder
        fname == Fname(file)
        a == Counterpart(need_analog, k, listing, fname, <<"analog">>, <<".txt">>)
        r == Counterpart(TRUE, k, listing, fname, << >>, <<"results.npz">>)
        c == Counterpart(need_colabeled, k, listing, fname, <<"_colabeled">>, <<".npy">>)
    IN  IF a.stop \/ r.stop \/ c.stop \/ AlreadyAnalyzed(k, listing, fname)
        THEN lists
        ELSE AppendGroup(lists, file, a.file, r.file, c.file)

\* _make_table, lines 157-165: zip stops at the shortest list
MakeFilesTable(fluo, analog_l, result, colabeled) ==
    LET n == SetMin({Len(fluo), Len(analog_l), Len(result), Len(colabeled)})
    IN  [i \in 1..n |-> [index |-> i - 1, tif |-> fluo[i], caiman |-> result[i],
                         analog |-> analog_l[i], colabeled |-> colabeled[i]]]

VARIABLES
    folder_globs,    \* the listing of every folder, in the dict's order
    overlap,         \* TRUE when the two keys of folder_globs hold the same
                     \* tree (a folder and its parent, which holds nothing
                     \* else): a file found under one key is found under both
    analog,          \* TRUE when self.analog is not AnalogAcquisitionType.NONE
    with_colabeled,
    fluo_files,
    analog_files,
    result_files,
    colabeled_files,
    to_visit,        \* the files the loops of lines 101-102 have yet to yield
    visited,         \* the files they have yielded, in order
    data_files,      \* the table find_files returns
    first_table,     \* the table of the first find_files of this session
    fpc              \* "off" | "ready" | "loop" | "returned" | "serialized"

varsFinder == <<folder_globs, overlap, analog, with_colabeled, fluo_files, analog_files,
                result_files, colabeled_files, to_visit, visited, data_files,
                first_table, fpc>>

NoTable == <<[index |-> -1, tif |-> NoFile, caiman |-> NoFile, analog |-> NoFile,
              colabeled |-> NoFile]>>

\* the .tif files of every folder, folder after folder (lines 101-102)
RECURSIVE AllTifs(_, _)
AllTifs(globs, k) ==
    IF k > Len(globs) THEN << >>
    ELSE Rglob(k, globs[k], << >>, << >>, TifExt) \o AllTifs(globs, k + 1)

InitFinder ==
    /\ \/ overlap = FALSE /\ folder_globs \in FolderGlobs
       \/ overlap = TRUE /\ folder_globs \in OverlappingGlobs
    /\ analog \in BOOLEAN
    /\ with_colabeled \in BOOLEAN
    /\ fluo_files = << >> /\ analog_files = << >> /\ result_files = << >>
    /\ colabeled_files = << >>
    /\ to_visit = << >> /\ visited = << >>
    /\ data_files = NoTable
    /\ first_table = NoTable
    /\ fpc = "ready"

IdleFinder ==
    /\ folder_globs = << >> /\ overlap = FALSE /\ analog = FALSE /\ with_colabeled = FALSE
    /\ fluo_files = << >> /\ analog_files = << >> /\ result_files = << >>
    /\ colabeled_files = << >> /\ to_visit = << >> /\ visited = << >>
    /\ data_files = NoTable /\ first_table = NoTable /\ fpc = "off"

\* find_files is called (line 80); lines 96-100
FindEnterFiles ==
    /\ fpc \in {"ready", "serialized"}
    /\ fluo_files' = << >> /\ analog_files' = << >> /\ result_files' = << >>
    /\ colabeled_files' = << >>
    /\ to_visit' = AllTifs(folder_globs, 1)
    /\ visited' = << >>
    /\ first_table' = IF fpc = "serialized" THEN data_files ELSE first_table
    /\ fpc' = "loop"
    /\ UNCHANGED <<folder_globs, overlap, analog, with_colabeled, data_files>>

\* lines 102-144 for the next file
FindVisit ==
    /\ fpc = "loop"
    /\ to_visit # << >>
    /\ \E lists \in {Visit([fluo |-> fluo_files, result |-> result_files,
                            colabeled |-> colabeled_files, analog |-> analog_files],
                           Head(to_visit), folder_globs[Head(to_visit).folder],
                           analog, with_colabeled)} :
           /\ fluo_files' = lists.fluo
           /\ result_files' = lists.result
           /\ colabeled_files' = lists.colabeled
           /\ analog_files' = lists.analog
    /\ visited' = Append(visited, Head(to_visit))
    /\ to_visit' = Tail(to_visit)
    /\ UNCHANGED <<folder_globs, overlap, analog, with_colabeled, data_files, first_table, fpc>>

\* lines 146-149, then lines 83-86
FindMakeTable ==
    /\ fpc = "loop"
    /\ to_visit = << >>
    /\ data_files' = MakeFilesTable(fluo_files, analog_files, result_files,
                                    colabeled_files)
    /\ fpc' = "returned"
    /\ UNCHANGED <<folder_globs, overlap, analog, with_colabeled, fluo_files, analog_files,
                   result_files, colabeled_files, to_visit, visited, first_table>>

\* the output of a row: str(fov.metadata.fname)[:-4] + ".nc", beside the .tif
OutputOf(files_row) == Fname(files_row.tif) \o NcExt

\* the file a Path names: under overlapping keys the Paths found under the
\* parent and under the folder itself name one file
Resolved(path) == IF overlap THEN [path EXCEPT !.folder = 1] ELSE path

\* the file a worker writes for a row (_mp_process_timepoints, line 226)
OutputFile(files_row) ==
    Resolved(PathOf(files_row.tif.folder, OutputOf(files_row)))

\* every row of the table is analysed and serialized (_analyze_single_fov,
\* lines 248-249), which writes the row's output under its folder; a file
\* written in a folder shows under every key that holds the folder
RECURSIVE WriteOutputs(_, _)
WriteOutputs(globs, rows) ==
    IF rows = << >> THEN (IF overlap THEN <<globs[1], globs[1]>> ELSE globs)
    ELSE LET files_row == Head(rows)
             k == OutputFile(files_row).folder
             l == globs[k]
             out == OutputOf(files_row)
             l2 == IF \E i \in 1..Len(l) : l[i] = out THEN l ELSE Append(l, out)
         IN  WriteOutputs([globs EXCEPT ![k] = l2], Tail(rows))

SerializeAll ==
    /\ fpc = "returned"
    /\ first_table = NoTable
    /\ folder_globs' = WriteOutputs(folder_globs, data_files)
    /\ fpc' = "serialized"
    /\ UNCHANGED <<overlap, analog, with_colabeled, fluo_files, analog_files,
                   result_files, colabeled_files, to_visit, visited, data_files,
                   first_table>>

\* ===================================== VascOccParser.__run_with_analog: fusion
\* most frames of an enumerated dF/F matrix (the analog trace may be a
\* sample longer)
MaxTrace == 2

\* rows of self.data_files
FusionRows == {1, 2}

\* calc_dff(row["caiman"]): one cell, values 0..1
DffResults == UNION {[1..1 -> RowsOfLen(n, 1)] : n \in 1..MaxTrace}
\* the vector of the analog trace after analog_trace.run()
AnalogVectors == UNION {RowsOfLen(n, 1) : n \in 1..(MaxTrace + 1)}

\* Objects live in a heap, a sequence indexed by object id, so that two names
\* of one object and a write through either of them can be told apart.
\* An analog-trace object: its vector and whether it was multiplied already.
AnalogTrace(vec) == [vec |-> vec, multiplied |-> FALSE]

\* copy.deepcopy(analog_trace), line 109
DeepCopyAliased(h, id) == [heap |-> h, id |-> id]

DeepCopy(h, id) == [heap |-> Append(h, h[id]), id |-> Len(h) + 1]

\* copied_trace * dff (the overloaded __mul__ of the analog-trace class),
\* line 110.  It cuts the vector of self to the frames of the matrix and
\* marks self as multiplied (it changes self, lines 107-108), reads the
\* matrix without writing it, and returns the product as a new value.
Mul(h, self, other) ==
    LET m == h[other]
        v == h[self].vec
        n == IF Len(v) < Len(m[1]) THEN Len(v) ELSE Len(m[1])
    IN  [heap |-> [h EXCEPT ![self] = [vec |-> SubSeq(v, 1, n), multiplied |-> TRUE]],
         product |-> [c \in 1..Len(m) |-> [t \in 1..n |-> m[c][t] * v[t]]]]

VARIABLES
    objs,            \* the heap
    fu_dff,          \* id of dff (line 87)
    analog_trace,    \* id of analog_trace (line 96)
    copied_trace,    \* id of copied_trace (line 109)
    sliced,          \* list_of_sliced_fluo as the products appended to it
    made,            \* dff and analog_trace as they were before line 109
    fu_rows,         \* number of rows of self.data_files
    upc              \* "off" | "loop"

varsFusion == <<objs, fu_dff, analog_trace, copied_trace, sliced, made, fu_rows, upc>>

NothingMade == [dff |-> << >>, trace |-> AnalogTrace(<< >>)]

InitFusion ==
    /\ objs = << >>
    /\ fu_dff = 0 /\ analog_trace = 0 /\ copied_trace = 0
    /\ sliced = << >>
    /\ made = NothingMade
    /\ fu_rows \in FusionRows
    /\ upc = "loop"

IdleFusion ==
    /\ objs = << >> /\ fu_dff = 0 /\ analog_trace = 0 /\ copied_trace = 0
    /\ sliced = << >> /\ made = NothingMade /\ fu_rows = 0 /\ upc = "off"

\* lines 87-110 for one row; the names dff, analog_trace and copied_trace
\* are bound anew, so the objects of the row before are no longer reachable
FuseRow ==
    /\ upc = "loop"
    /\ Len(sliced) < fu_rows
    /\ \E m \in DffResults : \E v \in AnalogVectors :
         \E cp \in {DeepCopy(<<m, AnalogTrace(v)>>, 2)} :
           \E out \in {Mul(cp.heap, cp.id, 1)} :
             /\ objs' = out.heap
             /\ fu_dff' = 1
             /\ analog_trace' = 2
             /\ copied_trace' = cp.id
             /\ sliced' = Append(sliced, out.product)
             /\ made' = [dff |-> m, trace |-> AnalogTrace(v)]
    /\ UNCHANGED <<fu_rows, upc>>

\* ================== a caller that merges in two passes and in one pass
\* most records of an enumerated chain A, B, ..., D
MaxChain == 3

ChainShapes == [epoch : {<<"all", "run">>, <<"all">>}, n : {1, 2}, time : TimeCoords]

\* four records A, B, C, D of 3, 5, 2 and 1 cells
ScenarioChain ==
    << [epoch |-> <<"all", "run">>, n |-> 3, time |-> <<0, 1>>],
       [epoch |-> <<"all", "run">>, n |-> 5, time |-> <<0, 1, 2>>],
       [epoch |-> <<"all", "run">>, n |-> 2, time |-> <<0, 1>>],
       [epoch |-> <<"all", "run">>, n |-> 1, time |-> <<0, 1>>] >>

Chains == UNION {[1..m -> ChainShapes] : m \in 2..MaxChain} \cup {ScenarioChain}

VARIABLES
    chain,           \* the records A, B, ..., D the caller holds
    stage,           \* "off" | "one_pass" | "head" | "tail" | "done"
    one_pass         \* what concat_vasc_occ_dataarrays(chain) came to

varsAssoc == <<chain, stage, one_pass>>

NoOutcome == [raised |-> FALSE, da |-> NoArray]

IdleAssoc == chain = << >> /\ stage = "off" /\ one_pass = NoOutcome

\* the caller starts with the one-pass call concat_vasc_occ_dataarrays(chain)
InitAssoc ==
    /\ \E shapes \in Chains : chain = DaList(shapes)
    /\ stage = "one_pass"
    /\ one_pass = NoOutcome
    /\ da_list = chain
    /\ new_da_list = << >> /\ num_of_neurons = 0 /\ crd_time = << >>
    /\ crd_epoch = << >> /\ cidx = 0 /\ merged = NoArray
    /\ cpc = "ready" /\ cerr = "none"

\* the caller calls concat_vasc_occ_dataarrays(args)
CallConcat(args) ==
    /\ da_list' = args
    /\ new_da_list' = << >> /\ num_of_neurons' = 0 /\ crd_time' = << >>
    /\ crd_epoch' = << >> /\ cidx' = 0 /\ merged' = NoArray
    /\ cpc' = "ready" /\ cerr' = "none"

\* the one-pass call is over; the caller keeps what it gave and calls again
\* with all the records but the last
TwoPassFirst ==
    /\ stage = "one_pass"
    /\ cpc \in {"returned", "raised"}
    /\ one_pass' = [raised |-> cpc = "raised", da |-> merged]
    /\ CallConcat(SubSeq(chain, 1, Len(chain) - 1))
    /\ stage' = "head"
    /\ UNCHANGED chain

\* the first pass returned: its result is merged with the last record
TwoPassSecond ==
    /\ stage = "head"
    /\ cpc = "returned"
    /\ CallConcat(<<merged, chain[Len(chain)]>>)
    /\ stage' = "tail"
    /\ UNCHANGED <<chain, one_pass>>

\* the second pass is over, or the first one raised
TwoPassDone ==
    /\ \/ stage = "tail" /\ cpc \in {"returned", "raised"}
       \/ stage = "head" /\ cpc = "raised"
    /\ stage' = "done"
    /\ UNCHANGED <<chain, one_pass, varsConcat>>

\* ================================ CalciumAnalysisOverTime.run_batch_of_timepoints
\* most rows of an enumerated files_table
MaxRows == 3

\* the day no file name matches day_regex for, line 277
NoDay == 999

\* A recording's .tif: its FOV and the digits after "_DAY_" in its name, -1
\* when the name has no such part.
TifNames == [fov : {"a", "b"}, day : {-1, 0, 1}, ext : {".tif"}]

\* the rows files_table.iterrows() yields, as (index, row) tuples
FilesTables == UNION {[1..n -> [tif : TifNames]] : n \in 0..MaxRows}
Iterrows(table) == [i \in 1..Len(table) |-> <<i - 1, table[i]>>]

\* most per-FOV files an earlier session left under the folders
MaxFovFiles == 2

\* the per-FOV files "*FOV*.nc" matches, named as their recordings
NcNames == [fov : {"a", "b"}, day : {-1, 0, 1}, ext : {".nc"}]
FovListings ==
    {l \in UNION {[1..n -> NcNames] : n \in 0..MaxFovFiles} :
        \A i \in 1..Len(l) : \A j \in 1..Len(l) : i # j => l[i] # l[j]}

\* the days that have a data_of_day file before the call
DayFileChoices == {{}, {0}, {0, 1, NoDay}}

\* the **regex keyword arguments: none, or cond_reg as in __main__
RegexChoices == {{}, {"cond_reg"}}

\* self._mp_process_timepoints(*args), lines 219-226, as pool.starmap calls
\* it: the method takes one positional argument besides self, files_row
MpProcessTimepoints(args) ==
    IF Len(args) # 1
    THEN [raised |-> TRUE, value |-> [fov |-> "", day |-> -1, ext |-> "TypeError"]]
    ELSE [raised |-> FALSE, value |-> [args[1].tif EXCEPT !.ext = ".nc"]]

VARIABLES
    files_table,
    regex,
    tasks,           \* the argument tuples handed to the pool
    outcomes,        \* per task: "queued", or what the call came to
    completion,      \* the tasks in the order the workers finished them
    list_of_fovs,    \* [set |-> FALSE] until line 214 assigns it
    fovs_by_day,
    bpc,             \* "off" | "ready" | "direct" | "running" | "collected" |
                     \* "grouped" | "done" | "raised"
    berr,
    serialize,
    fov_files,       \* the per-FOV .nc files under the folders of folder_globs,
                     \* in the order rglob yields them
    day_files,       \* the days d with a data_of_day_<d>.nc in the results folder
    concat           \* self.concat: [set |-> FALSE] until line 311 assigns it

varsPool == <<files_table, regex, tasks, outcomes, completion, list_of_fovs,
              fovs_by_day, bpc, berr, serialize, fov_files, day_files, concat>>

Unset == [set |-> FALSE, val |-> << >>]
Queued == [raised |-> FALSE, value |-> [fov |-> "", day |-> -1, ext |-> "queued"]]

\* a fresh CalciumAnalysisOverTime on which run_batch_of_timepoints is called
\* (no per-FOV output yet), or one on which generate_da_per_day is called
\* directly, after an earlier session serialized the FOVs
InitPool ==
    /\ tasks = << >> /\ outcomes = << >> /\ completion = << >>
    /\ list_of_fovs = Unset
    /\ fovs_by_day = << >>
    /\ berr = "none"
    /\ serialize \in BOOLEAN
    /\ day_files \in DayFileChoices
    /\ concat = Unset
    /\ \/ /\ bpc = "ready"
          /\ files_table \in FilesTables
          /\ regex \in RegexChoices
          /\ fov_files = << >>
       \/ /\ bpc = "direct"
          /\ files_table = << >>
          /\ regex = {}
          /\ fov_files \in FovListings

IdlePool ==
    /\ files_table = << >> /\ regex = {} /\ tasks = << >> /\ outcomes = << >>
    /\ completion = << >> /\ list_of_fovs = Unset /\ fovs_by_day = << >>
    /\ bpc = "off" /\ berr = "none"
    /\ serialize = FALSE /\ fov_files = << >> /\ day_files = {} /\ concat = Unset

\* lines 213-216, the call: Pool.starmap(func, iterable, chunksize=None) takes
\* no other keyword, so a non-empty regex raises TypeError before any task
BatchEnter ==
    /\ bpc = "ready"
    /\ IF regex # {}
       THEN /\ bpc' = "raised"
            /\ berr' = "TypeError"
            /\ UNCHANGED <<tasks, outcomes>>
       ELSE /\ tasks' = Iterrows(files_table)
            /\ outcomes' = [i \in 1..Len(files_table) |-> Queued]
            /\ bpc' = "running"
            /\ UNCHANGED berr
    /\ UNCHANGED <<files_table, regex, completion, list_of_fovs, fovs_by_day,
                   serialize, fov_files, day_files, concat>>

\* fov.add_metadata_and_serialize(), lines 248-249: the FOV's file is written
\* (mode "w") when the call got that far and self.serialize is set
Serialized(listing, outcome) ==
    IF outcome.raised \/ ~serialize
          \/ \E k \in 1..Len(listing) : listing[k] = outcome.value
    THEN listing
    ELSE Append(listing, outcome.value)

\* a worker finishes a task; the tasks finish in any order
WorkerRun ==
    /\ bpc = "running"
    /\ \E i \in 1..Len(tasks) :
         /\ outcomes[i] = Queued
         /\ outcomes' = [outcomes EXCEPT ![i] = MpProcessTimepoints(tasks[i])]
         /\ fov_files' = Serialized(fov_files, MpProcessTimepoints(tasks[i]))
         /\ completion' = Append(completion, i)
    /\ UNCHANGED <<files_table, regex, tasks, list_of_fovs, fovs_by_day, bpc, berr,
                   serialize, day_files, concat>>

\* starmap returns once every task is over: the results in the order of the
\* iterable, or the error of a failed task raised again in the caller
BatchCollect ==
    /\ bpc = "running"
    /\ \A i \in 1..Len(tasks) : outcomes[i] # Queued
    /\ IF \E i \in 1..Len(tasks) : outcomes[i].raised
       THEN /\ bpc' = "raised"
            /\ berr' = "TypeError"
            /\ UNCHANGED list_of_fovs
       ELSE /\ list_of_fovs' = [set |-> TRUE,
                                val |-> [i \in 1..Len(tasks) |-> outcomes[i].value]]
            /\ bpc' = "collected"
            /\ UNCHANGED berr
    /\ UNCHANGED <<files_table, regex, tasks, outcomes, completion, fovs_by_day,
                   serialize, fov_files, day_files, concat>>

\* int(day_reg.findall(str(file))[0]), 999 on IndexError, lines 274-277
DayOf(file) == IF file.day = -1 THEN NoDay ELSE file.day

\* fovs_by_day after the loop of lines 272-278, as (day, files) pairs
GroupByDay(files) ==
    LET days == {DayOf(files[i]) : i \in 1..Len(files)}
        of(d) == LET on(f) == DayOf(f) = d IN SelectSeq(files, on)
    IN  [d \in days |-> of(d)]

\* line 217: generate_da_per_day, lines 264-278, on self.list_of_fovs
GenerateDaPerDay ==
    /\ bpc = "collected"
    /\ fovs_by_day' = GroupByDay(list_of_fovs.val)
    /\ bpc' = "grouped"
    /\ UNCHANGED <<files_table, regex, tasks, outcomes, completion, list_of_fovs,
                   berr, serialize, fov_files, day_files, concat>>

\* generate_da_per_day called on an object whose list_of_fovs was never
\* assigned: the AttributeError of line 266 is caught and the files come from
\* rglob("*FOV*.nc") over the folders (lines 267-269), then lines 271-278
GenerateDaPerDayFromDisk ==
    /\ bpc = "direct"
    /\ ~list_of_fovs.set
    /\ fovs_by_day' = GroupByDay(fov_files)
    /\ bpc' = "grouped"
    /\ UNCHANGED <<files_table, regex, tasks, outcomes, completion, list_of_fovs,
                   berr, serialize, fov_files, day_files, concat>>

\* line 280, _concat_fovs (lines 282-314). The class has slots and no
\* attribute results_folder (lines 180-193), so the first pass of the loop
\* raises AttributeError at line 293, which the except StopIteration of line
\* 295 does not catch: lines 296-314 (the concatenation, self.concat, the
\* day's file) are never run. With no bucket the loop body is not entered.
ConcatFovs ==
    /\ bpc = "grouped"
    /\ IF DOMAIN fovs_by_day = {}
       THEN bpc' = "done" /\ UNCHANGED berr
       ELSE bpc' = "raised" /\ berr' = "AttributeError"
    /\ UNCHANGED <<files_table, regex, tasks, outcomes, completion, list_of_fovs,
                   fovs_by_day, serialize, fov_files, day_files, concat>>

\* ================================ VascOccParser._load_colabeled_idx, _load_dff
\* most rows of an enumerated data_files, most cells of a results file
MaxColabelFiles == 2
MaxCellsPerFile == 2

\* a row of data_files: the number of cells (rows of "F_dff") of row.caiman and
\* the array of row.colabeled, the indices of its co-labeled cells, which may
\* name cells the results file does not have
ColabelRows ==
    UNION {[caiman : {n}, colabeled : {SortedSeq(S) : S \in SUBSET (0..(n + 1))}]
              : n \in 1..MaxCellsPerFile}
ColabelTables == UNION {[1..m -> ColabelRows] : m \in 0..MaxColabelFiles}

\* _load_dff, lines 175-182: np.concatenate of the files' matrices; row g of
\* the result (from 0, at position g + 1) is cell c of file k
LoadDff(table) ==
    FlattenSeq([k \in 1..Len(table) |->
                   [c \in 1..table[k].caiman |-> <<k, c - 1>>]])

\* cur_idx.max(), line 167, of a non-empty array
ArrayMax(arr) == SetMax({arr[i] : i \in 1..Len(arr)})

VARIABLES
    label_table,     \* the caiman and colabeled columns of self.data_files
    colabel_idx,     \* the list of line 162
    num_of_cells,
    label_row,       \* the row the loop of line 164 is at
    returned_idx,    \* the array of lines 172-173
    lpc,             \* "off" | "ready" | "loop" | "returned" | "raised"
    lerr

varsColabel == <<label_table, colabel_idx, num_of_cells, label_row, returned_idx,
                 lpc, lerr>>

InitColabel ==
    /\ label_table \in ColabelTables
    /\ colabel_idx = << >> /\ num_of_cells = 0 /\ label_row = 1
    /\ returned_idx = << >>
    /\ lpc = "ready" /\ lerr = "none"

IdleColabel ==
    /\ label_table = << >>
    /\ colabel_idx = << >> /\ num_of_cells = 0 /\ label_row = 1
    /\ returned_idx = << >>
    /\ lpc = "off" /\ lerr = "none"

\* lines 162-163
LoadColabeledEnter ==
    /\ lpc = "ready"
    /\ colabel_idx' = << >>
    /\ num_of_cells' = 0
    /\ label_row' = 1
    /\ lpc' = "loop"
    /\ UNCHANGED <<label_table, returned_idx, lerr>>

\* lines 164-170 for one row: max() of an empty array raises ValueError; the
\* assert lets through every array whose largest index is at most the number
\* of cells
LoadColabeledRow ==
    /\ lpc = "loop"
    /\ label_row <= Len(label_table)
    /\ LET cur_data == label_table[label_row].caiman
           cur_idx == label_table[label_row].colabeled
       IN  IF cur_idx = << >>
           THEN /\ lpc' = "raised" /\ lerr' = "ValueError"
                /\ UNCHANGED <<colabel_idx, num_of_cells, label_row>>
           ELSE IF ~(ArrayMax(cur_idx) <= cur_data)
           THEN /\ lpc' = "raised" /\ lerr' = "AssertionError"
                /\ UNCHANGED <<colabel_idx, num_of_cells, label_row>>
           ELSE /\ colabel_idx' =
                      Append(colabel_idx,
                             [i \in 1..Len(cur_idx) |-> cur_idx[i] + num_of_cells])
                /\ num_of_cells' = num_of_cells + cur_data
                /\ label_row' = label_row + 1
                /\ UNCHANGED <<lpc, lerr>>
    /\ UNCHANGED <<label_table, returned_idx>>

\* lines 172-173
LoadColabeledReturn ==
    /\ lpc = "loop"
    /\ label_row > Len(label_table)
    /\ returned_idx' = FlattenSeq(colabel_idx)
    /\ lpc' = "returned"
    /\ UNCHANGED <<label_table, colabel_idx, num_of_cells, label_row, lerr>>

\* ============================ ShowLabeledAndUnlabeled._stack_dff_arrays
\* most file pairs of an enumerated file_pairs, most cells of a results file
MaxPairs == 2
MaxPairCells == 2

\* the numbers of measurements (columns of "F_dff") a file may have
TraceWidths == {1, 2}

\* a pair: the shape of the "F_dff" of file["results"] and the indices of
\* file["colabeled"], each the index of a cell of the file
FilePairs ==
    UNION {[cells : {n}, width : TraceWidths,
            labeled_idx : {SortedSeq(S) : S \in SUBSET (0..(n - 1))}]
              : n \in 1..MaxPairCells}
FilePairTables == UNION {[1..m -> FilePairs] : m \in 0..MaxPairs}

\* a row of np.zeros(max_shape), and the row of cell c of file k
ZeroRow == [file |-> 0, cell |-> 0, width |-> 0]
CellRow(k, c, w) == [file |-> k, cell |-> c, width |-> w]

\* all_data[labeled_idx, :], line 92
LabeledRows(pairs, k) ==
    [i \in 1..Len(pairs[k].labeled_idx) |->
        CellRow(k, pairs[k].labeled_idx[i], pairs[k].width)]

\* np.delete(all_data, labeled_idx, axis=0), line 93
UnlabeledRows(pairs, k) ==
    LET rest == SortedSeq((0..(pairs[k].cells - 1))
                    \ {pairs[k].labeled_idx[i] : i \in 1..Len(pairs[k].labeled_idx)})
    IN  [i \in 1..Len(rest) |-> CellRow(k, rest[i], pairs[k].width)]

RECURSIVE SumLabeled(_)
SumLabeled(pairs) ==
    IF pairs = << >> THEN 0
    ELSE Len(Head(pairs).labeled_idx) + SumLabeled(Tail(pairs))

RECURSIVE SumCells(_)
SumCells(pairs) ==
    IF pairs = << >> THEN 0 ELSE Head(pairs).cells + SumCells(Tail(pairs))

\* _find_max_shape, lines 108-124, for a non-empty file_pairs
FindMaxShape(pairs) ==
    [num_of_rows |-> SumCells(pairs) - SumLabeled(pairs),
     max_cols |-> SetMax({pairs[k].width : k \in 1..Len(pairs)})]

\* the rows target[start : start + Len(rows)] names: a slice is clipped to the
\* array
SliceRows(target, start, rows) ==
    LET lo == IF start < Len(target) THEN start ELSE Len(target)
        hi == IF start + Len(rows) < Len(target) THEN start + Len(rows)
              ELSE Len(target)
    IN  (lo + 1)..hi

\* target[start : start + Len(rows), : width] = rows is an error unless the
\* slice has as many rows as the value, or the value has one row, which is
\* then broadcast over the slice (an empty slice takes it and stores nothing)
CanAssign(target, start, rows) ==
    \/ Cardinality(SliceRows(target, start, rows)) = Len(rows)
    \/ Len(rows) = 1

AssignRows(target, start, rows) ==
    [p \in 1..Len(target) |->
        IF p \in SliceRows(target, start, rows)
        THEN (IF Len(rows) = 1 THEN rows[1] ELSE rows[p - start])
        ELSE target[p]]

VARIABLES
    file_pairs,
    max_shape,
    labeled_data,
    unlabeled_data,
    row_label,
    row_unlabel,
    pair_row,        \* the pair the loop of line 90 is at
    spc,             \* "off" | "ready" | "shaped" | "loop" | "returned" | "raised"
    serr

varsStack == <<file_pairs, max_shape, labeled_data, unlabeled_data, row_label,
               row_unlabel, pair_row, spc, serr>>

NoShape == [num_of_rows |-> 0, max_cols |-> 0]

InitStack ==
    /\ file_pairs \in FilePairTables
    /\ max_shape = NoShape
    /\ labeled_data = << >> /\ unlabeled_data = << >>
    /\ row_label = 0 /\ row_unlabel = 0 /\ pair_row = 1
    /\ spc = "ready" /\ serr = "none"

IdleStack ==
    /\ file_pairs = << >>
    /\ max_shape = NoShape
    /\ labeled_data = << >> /\ unlabeled_data = << >>
    /\ row_label = 0 /\ row_unlabel = 0 /\ pair_row = 1
    /\ spc = "off" /\ serr = "none"

\* run, line 36: _find_max_shape; with no pair, np.array([]) has one
\* dimension and shapes[:, 0] raises IndexError (line 121)
StackFindMaxShape ==
    /\ spc = "ready"
    /\ IF file_pairs = << >>
       THEN spc' = "raised" /\ serr' = "IndexError" /\ UNCHANGED max_shape
       ELSE spc' = "shaped" /\ max_shape' = FindMaxShape(file_pairs)
                /\ UNCHANGED serr
    /\ UNCHANGED <<file_pairs, labeled_data, unlabeled_data, row_label,
                   row_unlabel, pair_row>>

\* run, line 37: _stack_dff_arrays, lines 86-89
StackEnter ==
    /\ spc = "shaped"
    /\ labeled_data' = [p \in 1..max_shape.num_of_rows |-> ZeroRow]
    /\ unlabeled_data' = [p \in 1..max_shape.num_of_rows |-> ZeroRow]
    /\ row_label' = 0
    /\ row_unlabel' = 0
    /\ pair_row' = 1
    /\ spc' = "loop"
    /\ UNCHANGED <<file_pairs, max_shape, serr>>

\* lines 90-104 for one pair
StackPair ==
    /\ spc = "loop"
    /\ pair_row <= Len(file_pairs)
    /\ LET labeled == LabeledRows(file_pairs, pair_row)
           unlabeled == UnlabeledRows(file_pairs, pair_row)
       IN  IF ~CanAssign(labeled_data, row_label, labeled)
           THEN /\ spc' = "raised" /\ serr' = "ValueError"
                /\ UNCHANGED <<labeled_data, unlabeled_data, row_label,
                               row_unlabel, pair_row>>
           ELSE IF ~CanAssign(unlabeled_data, row_unlabel, unlabeled)
           THEN /\ labeled_data' = AssignRows(labeled_data, row_label, labeled)
                /\ spc' = "raised" /\ serr' = "ValueError"
                /\ UNCHANGED <<unlabeled_data, row_label, row_unlabel, pair_row>>
           ELSE /\ labeled_data' = AssignRows(labeled_data, row_label, labeled)
                /\ unlabeled_data' =
                       AssignRows(unlabeled_data, row_unlabel, unlabeled)
                /\ row_label' = row_label + Len(labeled)
                /\ row_unlabel' = row_unlabel + Len(unlabeled)
                /\ pair_row' = pair_row + 1
                /\ UNCHANGED <<spc, serr>>
    /\ UNCHANGED <<file_pairs, max_shape>>

\* line 106
StackReturn ==
    /\ spc = "loop"
    /\ pair_row > Len(file_pairs)
    /\ spc' = "returned"
    /\ UNCHANGED <<file_pairs, max_shape, labeled_data, unlabeled_data, row_label,
                   row_unlabel, pair_row, serr>>

\* ========================================================= specifications
vars == <<varsDetect, varsLib, varsParser, varsAnalyzer, varsConcat, varsFinder, varsFusion,
         varsAssoc, varsPool, varsSerial, varsColabel, varsStack>>

\* the library installed beside the scripts
InitLib == flat_int \in BOOLEAN

\* the vascular-occlusion pipeline: VascOccParser, then VascOccAnalyzer
Init == InitLib /\ IdleDetect /\ InitParser /\ IdleAnalyzer /\ IdleConcat /\ IdleFinder /\ IdleFusion /\ IdleAssoc /\ IdlePool /\ IdleStack /\ IdleColabel
Next ==
    \/ RunRow /\ UNCHANGED <<varsDetect, varsLib, varsAnalyzer, varsConcat, varsFinder, varsFusion, varsAssoc, varsPool, varsColabel, varsStack>>
    \/ MergeAndSerialize /\ UNCHANGED <<varsDetect, varsLib, varsAnalyzer, varsConcat, varsFinder, varsFusion, varsAssoc, varsPool, varsColabel, varsStack>>
    \/ ParserExit /\ UNCHANGED <<varsDetect, varsLib, varsAnalyzer, varsConcat, varsFinder, varsFusion, varsAssoc, varsPool, varsColabel, varsStack>>
    \/ LoadData /\ UNCHANGED <<varsDetect, varsLib, varsParser, varsConcat, varsFinder, varsFusion, varsAssoc, varsPool, varsSerial, varsColabel, varsStack>>
    \/ FindEnter /\ UNCHANGED <<varsDetect, varsLib, varsParser, varsConcat, varsFinder, varsFusion, varsAssoc, varsPool, varsSerial, varsColabel, varsStack>>
    \/ FindRow /\ UNCHANGED <<varsDetect, varsLib, varsParser, varsConcat, varsFinder, varsFusion, varsAssoc, varsPool, varsSerial, varsColabel, varsStack>>
    \/ FindReturn /\ UNCHANGED <<varsDetect, varsLib, varsParser, varsConcat, varsFinder, varsFusion, varsAssoc, varsPool, varsSerial, varsColabel, varsStack>>
Spec == Init /\ [][Next]_vars

\* a caller of locate_spikes_peakutils
InitLocate == InitLib /\ InitDetect /\ IdleParser /\ IdleAnalyzer /\ IdleConcat /\ IdleFinder /\ IdleFusion /\ IdleAssoc /\ IdlePool /\ IdleStack /\ IdleColabel
NextLocate ==
    \/ LocateEnter /\ UNCHANGED <<varsLib, varsParser, varsAnalyzer, varsConcat, varsFinder, varsFusion, varsAssoc, varsPool, varsSerial, varsColabel, varsStack>>
    \/ LocateRow /\ UNCHANGED <<varsLib, varsParser, varsAnalyzer, varsConcat, varsFinder, varsFusion, varsAssoc, varsPool, varsSerial, varsColabel, varsStack>>
    \/ LocateReturn /\ UNCHANGED <<varsLib, varsParser, varsAnalyzer, varsConcat, varsFinder, varsFusion, varsAssoc, varsPool, varsSerial, varsColabel, varsStack>>
SpecDetect == InitLocate /\ [][NextLocate]_vars

\* a caller of concat_vasc_occ_dataarrays
InitMerge == flat_int = TRUE /\ IdleDetect /\ IdleParser /\ IdleAnalyzer /\ InitConcat /\ IdleFinder /\ IdleFusion /\ IdleAssoc /\ IdlePool /\ IdleStack /\ IdleColabel
NextMerge ==
    \/ ConcatEnter /\ UNCHANGED <<varsDetect, varsLib, varsParser, varsAnalyzer, varsFinder, varsFusion, varsAssoc, varsPool, varsSerial, varsColabel, varsStack>>
    \/ ConcatIter /\ UNCHANGED <<varsDetect, varsLib, varsParser, varsAnalyzer, varsFinder, varsFusion, varsAssoc, varsPool, varsSerial, varsColabel, varsStack>>
    \/ ConcatReturn /\ UNCHANGED <<varsDetect, varsLib, varsParser, varsAnalyzer, varsFinder, varsFusion, varsAssoc, varsPool, varsSerial, varsColabel, varsStack>>
SpecConcat == InitMerge /\ [][NextMerge]_vars

\* the detector and the pipeline side by side: either script may be the one run
InitSpikes == Init \/ InitLocate
NextSpikes == Next \/ NextLocate
SpecSpikes == InitSpikes /\ [][NextSpikes]_vars

\* a caller of FileFinder.find_files, who may run the analysis and look again
InitDiscovery ==
    flat_int = TRUE /\ IdleDetect /\ IdleParser /\ IdleAnalyzer /\ IdleConcat
        /\ InitFinder /\ IdleFusion /\ IdleAssoc /\ IdlePool /\ IdleStack /\ IdleColabel
NextDiscovery ==
    \/ FindEnterFiles /\ UNCHANGED <<varsDetect, varsLib, varsParser, varsAnalyzer, varsConcat, varsFusion, varsAssoc, varsPool, varsSerial, varsColabel, varsStack>>
    \/ FindVisit /\ UNCHANGED <<varsDetect, varsLib, varsParser, varsAnalyzer, varsConcat, varsFusion, varsAssoc, varsPool, varsSerial, varsColabel, varsStack>>
    \/ FindMakeTable /\ UNCHANGED <<varsDetect, varsLib, varsParser, varsAnalyzer, varsConcat, varsFusion, varsAssoc, varsPool, varsSerial, varsColabel, varsStack>>
    \/ SerializeAll /\ UNCHANGED <<varsDetect, varsLib, varsParser, varsAnalyzer, varsConcat, varsFusion, varsAssoc, varsPool, varsSerial, varsColabel, varsStack>>
SpecFinder == InitDiscovery /\ [][NextDiscovery]_vars

\* the fusion loop of VascOccParser.__run_with_analog
InitAligner ==
    flat_int = TRUE /\ IdleDetect /\ IdleParser /\ IdleAnalyzer /\ IdleConcat
        /\ IdleFinder /\ InitFusion /\ IdleAssoc /\ IdlePool /\ IdleStack /\ IdleColabel
NextAligner ==
    \/ FuseRow /\ UNCHANGED <<varsDetect, varsLib, varsParser, varsAnalyzer, varsConcat, varsFinder, varsAssoc, varsPool, varsSerial, varsColabel, varsStack>>
SpecFusion == InitAligner /\ [][NextAligner]_vars

\* a caller of concat_vasc_occ_dataarrays who merges a chain of records in
\* one pass and in two
InitChain ==
    flat_int = TRUE /\ IdleDetect /\ IdleParser /\ IdleAnalyzer /\ IdleFinder
        /\ IdleFusion /\ InitAssoc /\ IdlePool /\ IdleStack /\ IdleColabel
NextChain ==
    \/ ConcatEnter /\ UNCHANGED <<varsDetect, varsLib, varsParser, varsAnalyzer, varsFinder, varsFusion, varsAssoc, varsPool, varsSerial, varsColabel, varsStack>>
    \/ ConcatIter /\ UNCHANGED <<varsDetect, varsLib, varsParser, varsAnalyzer, varsFinder, varsFusion, varsAssoc, varsPool, varsSerial, varsColabel, varsStack>>
    \/ ConcatReturn /\ UNCHANGED <<varsDetect, varsLib, varsParser, varsAnalyzer, varsFinder, varsFusion, varsAssoc, varsPool, varsSerial, varsColabel, varsStack>>
    \/ TwoPassFirst /\ UNCHANGED <<varsDetect, varsLib, varsParser, varsAnalyzer, varsFinder, varsFusion, varsPool, varsSerial, varsColabel, varsStack>>
    \/ TwoPassSecond /\ UNCHANGED <<varsDetect, varsLib, varsParser, varsAnalyzer, varsFinder, varsFusion, varsPool, varsSerial, varsColabel, varsStack>>
    \/ TwoPassDone /\ UNCHANGED <<varsDetect, varsLib, varsParser, varsAnalyzer, varsFinder, varsFusion, varsPool, varsSerial, varsColabel, varsStack>>
SpecAssoc == InitChain /\ [][NextChain]_vars

\* a caller of CalciumAnalysisOverTime.run_batch_of_timepoints
InitBatch ==
    flat_int = TRUE /\ IdleDetect /\ IdleParser /\ IdleAnalyzer /\ IdleConcat
        /\ IdleFinder /\ IdleFusion /\ IdleAssoc /\ InitPool /\ IdleStack /\ IdleColabel
NextBatch ==
    \/ BatchEnter /\ UNCHANGED <<varsDetect, varsLib, varsParser, varsAnalyzer, varsConcat, varsFinder, varsFusion, varsAssoc, varsSerial, varsColabel, varsStack>>
    \/ WorkerRun /\ UNCHANGED <<varsDetect, varsLib, varsParser, varsAnalyzer, varsConcat, varsFinder, varsFusion, varsAssoc, varsSerial, varsColabel, varsStack>>
    \/ BatchCollect /\ UNCHANGED <<varsDetect, varsLib, varsParser, varsAnalyzer, varsConcat, varsFinder, varsFusion, varsAssoc, varsSerial, varsColabel, varsStack>>
    \/ GenerateDaPerDay /\ UNCHANGED <<varsDetect, varsLib, varsParser, varsAnalyzer, varsConcat, varsFinder, varsFusion, varsAssoc, varsSerial, varsColabel, varsStack>>
    \/ GenerateDaPerDayFromDisk /\ UNCHANGED <<varsDetect, varsLib, varsParser, varsAnalyzer, varsConcat, varsFinder, varsFusion, varsAssoc, varsSerial, varsColabel, varsStack>>
    \/ ConcatFovs /\ UNCHANGED <<varsDetect, varsLib, varsParser, varsAnalyzer, varsConcat, varsFinder, varsFusion, varsAssoc, varsSerial, varsColabel, varsStack>>
SpecPool == InitBatch /\ [][NextBatch]_vars

\* the two ways a batch of FOVs is processed: the per-file loop of
\* VascOccParser and the pool of CalciumAnalysisOverTime
InitFovs == Init \/ InitBatch
NextFovs == Next \/ NextBatch
SpecFovs == InitFovs /\ [][NextFovs]_vars

\* a caller of VascOccParser._load_colabeled_idx
InitLabels ==
    flat_int = TRUE /\ IdleDetect /\ IdleParser /\ IdleAnalyzer /\ IdleConcat
        /\ IdleFinder /\ IdleFusion /\ IdleAssoc /\ IdlePool /\ IdleStack /\ InitColabel
NextLabels ==
    \/ LoadColabeledEnter /\ UNCHANGED <<varsDetect, varsLib, varsParser, varsAnalyzer, varsConcat, varsFinder, varsFusion, varsAssoc, varsPool, varsSerial, varsStack>>
    \/ LoadColabeledRow /\ UNCHANGED <<varsDetect, varsLib, varsParser, varsAnalyzer, varsConcat, varsFinder, varsFusion, varsAssoc, varsPool, varsSerial, varsStack>>
    \/ LoadColabeledReturn /\ UNCHANGED <<varsDetect, varsLib, varsParser, varsAnalyzer, varsConcat, varsFinder, varsFusion, varsAssoc, varsPool, varsSerial, varsStack>>
SpecColabel == InitLabels /\ [][NextLabels]_vars

\* ShowLabeledAndUnlabeled.run up to the stacked arrays
InitStacking ==
    flat_int = TRUE /\ IdleDetect /\ IdleParser /\ IdleAnalyzer /\ IdleConcat
        /\ IdleFinder /\ IdleFusion /\ IdleAssoc /\ IdlePool /\ IdleColabel
        /\ InitStack
NextStacking ==
    \/ StackFindMaxShape /\ UNCHANGED <<varsDetect, varsLib, varsParser, varsAnalyzer, varsConcat, varsFinder, varsFusion, varsAssoc, varsPool, varsSerial, varsColabel>>
    \/ StackEnter /\ UNCHANGED <<varsDetect, varsLib, varsParser, varsAnalyzer, varsConcat, varsFinder, varsFusion, varsAssoc, varsPool, varsSerial, varsColabel>>
    \/ StackPair /\ UNCHANGED <<varsDetect, varsLib, varsParser, varsAnalyzer, varsConcat, varsFinder, varsFusion, varsAssoc, varsPool, varsSerial, varsColabel>>
    \/ StackReturn /\ UNCHANGED <<varsDetect, varsLib, varsParser, varsAnalyzer, varsConcat, varsFinder, varsFusion, varsAssoc, varsPool, varsSerial, varsColabel>>
SpecStack == InitStacking /\ [][NextStacking]_vars

\* ================================================================== claims
\* 0-based positions marked 1 in a row
Marks(r) == {c - 1 : c \in {x \in 1..Len(r) : r[x] = 1}}

\* number of cells of the records before the k-th of da_list
RECURSIVE CellsBefore(_)
CellsBefore(k) == IF k <= 1 THEN 0 ELSE CellsBefore(k - 1) + Len(da_list[k - 1].neuron)

\* ---------------------------------------------------------------------- C1
\* C1: concat_vasc_occ_dataarrays gives the k-th record's cells exactly the
\* cell indices [n0+...+n(k-1), n0+...+nk), in input order, so the merged
\* cell coordinate is 0..N-1 without duplicate or gap, and cell j of record k
\* sits at merged position n0+...+n(k-1)+j; records of 3 and 5 cells give
\* 0..7 with the second record at 3..7.
C1_ContiguousCellIndex ==
    /\ \A k \in 1..Len(new_da_list) :
           new_da_list[k].neuron =
               [j \in 1..Len(da_list[k].neuron) |-> CellsBefore(k) + j - 1]
    /\ cpc = "returned" =>
           /\ merged.neuron = [i \in 1..CellsBefore(Len(da_list) + 1) |-> i - 1]
           /\ \A k \in 1..Len(da_list) : \A j \in 1..Len(da_list[k].neuron) :
                  merged.data[CellsBefore(k) + j] = <<k, j - 1>>
    /\ (cpc = "returned" /\ da_list = DaList(ScenarioShapes)) =>
           /\ merged.neuron = <<0, 1, 2, 3, 4, 5, 6, 7>>
           /\ \A j \in 0..4 : merged.data[3 + j + 1] = <<2, j>>

C1_Witness == cpc = "returned" /\ da_list = DaList(ScenarioShapes)

\* ---------------------------------------------------------------------- C2
\* the value v is the fraction count * num / den
IsScaled(v, count, num, den) == v.k = "fin" /\ v.n * den = count * num * v.d

\* C2: for each cell _find_spikes returns before = number of detected spikes
\* with index in [0, before), during = (number in [before, before+during)) *
\* before / during and after = (number in [before+during, total)) * before /
\* after (for a during / after length that is not zero); with before 100,
\* during 50, total 200 and 2/1/1 spikes the row is 2, 2.0, 2.0.
C2_EpochCounts ==
    apc = "returned" =>
        LET b == attrs.frames_before_occ
            d == attrs.frames_during_occ
            a == attrs.frames_after_occ
        IN  /\ Len(num_of_spikes) = Len(dff)
            /\ \A r \in 1..Len(dff) :
                 LET spikes == Marks(an_spikes[r])
                     total == Len(dff[r])
                     n1 == Cardinality({i \in spikes : 0 <= i /\ i < b})
                     n2 == Cardinality({i \in spikes : b <= i /\ i < b + d})
                     n3 == Cardinality({i \in spikes : b + d <= i /\ i < total})
                 IN  /\ num_of_spikes[r].before = n1
                     /\ d # 0 => IsScaled(num_of_spikes[r].during, n2, b, d)
                     /\ a # 0 => IsScaled(num_of_spikes[r].after, n3, b, a)
            /\ (b = 100 /\ d = 50 /\ a = 50 /\ dff = ScenarioDff /\ fs_min_dist < 40) =>
                 /\ num_of_spikes[1].before = 2
                 /\ IsScaled(num_of_spikes[1].during, 2, 1, 1)
                 /\ IsScaled(num_of_spikes[1].after, 2, 1, 1)

C2_Witness ==
    /\ apc = "returned"
    /\ attrs.frames_before_occ = 100 /\ attrs.frames_during_occ = 50
    /\ attrs.frames_after_occ = 50
    /\ dff = ScenarioDff
    /\ Marks(an_spikes[1]) = {10, 50, 120, 170}

\* ---------------------------------------------------------------------- C3
\* C3: after_frames is total - before - during, and whenever before + during
\* exceeds the total the program raises an epoch-length error instead of
\* storing, persisting or using the negative value.
C3_NegativeRemainderRaises ==
    /\ (cur_frames >= 0 /\ ~warned /\ perr = "none") =>
           /\ frames_after_stim = cur_frames - frames_before_stim - len_of_epoch_in_frames
           /\ frames_after_stim >= 0
    /\ disk.written => disk.frames_after_occ >= 0
    /\ attrs.written => attrs.frames_after_occ >= 0

\* ---------------------------------------------------------------------- C4
\* C4: once _get_params has run for a recording, on the normal path and on
\* the fallback path, the epoch boundaries that are later persisted are all
\* non-negative and sum to the total frame count of that recording.
C4_EpochsPartitionRecording ==
    (cur_frames >= 0 /\ perr = "none") =>
        /\ frames_before_stim >= 0
        /\ len_of_epoch_in_frames >= 0
        /\ frames_after_stim >= 0
        /\ frames_before_stim + len_of_epoch_in_frames + frames_after_stim = cur_frames
        /\ disk.written =>
               /\ disk.frames_after_occ >= 0
               /\ disk.frames_before_occ + disk.frames_during_occ
                      + disk.frames_after_occ = cur_frames

\* ---------------------------------------------------------------------- C5
\* C5: a zero-length epoch (during = 0 or after = 0) makes the normalisation
\* of _find_spikes end in a reported error; no NaN or infinite normalised
\* count ever reaches the returned table.
C5_ZeroEpochReported ==
    /\ (apc \in {"loop", "returned"}
            /\ (attrs.frames_during_occ = 0 \/ attrs.frames_after_occ = 0)) => FALSE
    /\ \A r \in 1..Len(num_of_spikes) :
           num_of_spikes[r].during.k = "fin" /\ num_of_spikes[r].after.k = "fin"

\* ---------------------------------------------------------------------- C6
Separated(m, md) ==
    \A r \in 1..Len(m) : \A p \in Marks(m[r]) : \A q \in Marks(m[r]) :
        p < q => q - p >= md

\* C6: no two positions marked 1 in a cell's row of the spike matrix are
\* closer than the minimum separation to each other, in the matrix
\* locate_spikes_peakutils fills and in the one _find_spikes fills.
C6_MinSeparation ==
    /\ (dpc = "loop" => Separated(heap[all_spikes], min_dist))
    /\ \A i \in 1..Len(returned) : Separated(returned[i], min_dist)
    /\ (apc \in {"loop", "returned"} => Separated(an_spikes, fs_min_dist))

\* a returned matrix in which the minimum distance removed a local maximum
C6_Witness ==
    /\ Len(returned) >= 1
    /\ min_dist >= 2
    /\ \E r \in 1..Len(orig) :
           /\ ~IsFlat(orig[r])
           /\ Cardinality(CandidatePeaks(orig[r], thresh)) >= 2
           /\ Cardinality(Marks(returned[1][r])) >= 1
           /\ Cardinality(Marks(returned[1][r]))
                  < Cardinality(CandidatePeaks(orig[r], thresh))

\* ---------------------------------------------------------------------- C7
SameShape(m, o) ==
    Len(m) = Len(o) /\ \A r \in 1..Len(o) : Len(m[r]) = Len(o[r])

\* C7: for every 2-D input with at least one row the detector raises no error
\* and returns a matrix of the same shape whose entries are all 0 or 1, a row
\* without a peak (a flat row included) being all zero.
C7_FlatRowsHandled ==
    (dpc # "off" /\ Len(orig) >= 1) =>
        /\ err = "none"
        /\ \A i \in 1..Len(returned) :
               /\ SameShape(returned[i], orig)
               /\ \A r \in 1..Len(orig) :
                      /\ \A c \in 1..Len(orig[r]) : returned[i][r][c] \in {0, 1}
                      /\ IsFlat(orig[r]) => Marks(returned[i][r]) = {}

\* ---------------------------------------------------------------------- C8
\* C8: on the 2 x 10 matrix with cell 0 = [0,0,5,0,0,0,5,0,0,0] and cell 1
\* all zeros, threshold 0.5 and minimum separation 3, the detector marks row
\* 0 at exactly the indices 2 and 6 and leaves row 1 all zeros.
C8_ScenarioMarks ==
    (orig = ScenarioMatrix /\ thresh = 50 /\ MinDist(fps) = 3) =>
        /\ err = "none"
        /\ \A i \in 1..Len(returned) :
               /\ Marks(returned[i][1]) = {2, 6}
               /\ Marks(returned[i][2]) = {}

\* ---------------------------------------------------------------------- C9
\* C9: running the detector twice on the same matrix with the same parameters
\* yields identical spike matrices, and a run leaves its input matrix as the
\* caller built it.
C9_Repeatable ==
    /\ dpc # "off" => heap[data] = orig
    /\ Len(returned) = 2 => returned[1] = returned[2]

C9_Witness ==
    /\ Len(returned) = 2
    /\ \E r \in 1..Len(orig) : Cardinality(Marks(returned[2][r])) >= 2

\* --------------------------------------------------------------------- C10
\* C10 as stated: the minimum separation derived from the sampling rate is
\* round(sampling_rate), e.g. 30 for 29.97 Hz, in both functions.
C10_RoundsRate ==
    /\ min_dist # -1 => min_dist = PyRound(fps)
    /\ fs_min_dist # -1 => fs_min_dist = PyRound(attrs.fps)

\* C10 amended: the minimum separation derived from the sampling rate is
\* int(sampling_rate), the rate truncated toward zero (29 for 29.97 Hz), in
\* locate_spikes_peakutils and in _find_spikes.
C10_TruncatesRate ==
    /\ min_dist # -1 =>
           /\ 100 * min_dist <= fps
           /\ fps < 100 * (min_dist + 1)
    /\ fs_min_dist # -1 =>
           /\ 100 * fs_min_dist <= attrs.fps
           /\ attrs.fps < 100 * (fs_min_dist + 1)

C10_Witness == fps = 2997 /\ min_dist = 29 /\ Len(returned) = 1

\* ------------------------------------------------------- FileFinder claims
\* the listing of the folder a file was found under
FolderOf(file) == folder_globs[file.folder]
\* a file of this name lies under the folder
Exists(k, name) == \E i \in 1..Len(folder_globs[k]) : folder_globs[k][i] = name
\* find_files has returned its table
TableReturned == fpc \in {"returned", "serialized"}
TableHas(file) == \E i \in 1..Len(data_files) : data_files[i].tif = file

\* --------------------------------------------------------------------- C11
\* C11: every row of the table find_files returns has a primary file and a
\* results file, has an analog file when analog acquisition is required and a
\* co-label file when co-labeling is required, has None in the analog /
\* co-label field when that artifact is not required, and every file of the
\* row exists; the four lists never hold a group with a required file missing.
C11_RowsComplete ==
    /\ TableReturned =>
           \A i \in 1..Len(data_files) :
               LET r == data_files[i]
               IN  /\ r.tif # NoFile /\ Exists(r.tif.folder, r.tif.name)
                   /\ r.caiman # NoFile /\ Exists(r.caiman.folder, r.caiman.name)
                   /\ analog => (r.analog # NoFile
                                    /\ Exists(r.analog.folder, r.analog.name))
                   /\ ~analog => r.analog = NoFile
                   /\ with_colabeled => (r.colabeled # NoFile
                                    /\ Exists(r.colabeled.folder, r.colabeled.name))
                   /\ ~with_colabeled => r.colabeled = NoFile
    /\ \A i \in 1..Len(result_files) : result_files[i] # NoFile
    /\ \A i \in 1..Len(analog_files) : analog <=> analog_files[i] # NoFile
    /\ \A i \in 1..Len(colabeled_files) : with_colabeled <=> colabeled_files[i] # NoFile

\* a table with a row, returned after a file that lacks a required
\* counterpart was passed over
C11_Witness ==
    /\ fpc = "returned"
    /\ analog
    /\ Len(data_files) >= 1
    /\ \E i \in 1..Len(visited) :
           /\ ~TableHas(visited[i])
           /\ Rglob(visited[i].folder, FolderOf(visited[i]), Fname(visited[i]),
                    <<"analog">>, <<".txt">>) = << >>

\* --------------------------------------------------------------------- C12
\* the recording of this primary file has a file of this marker of its own
HasOwn(file, marker) == Exists(file.folder, Fname(file) \o marker)

\* C12: a primary file without a counterpart is passed over and discovery
\* goes on: every primary file matching the glob that has all its required
\* counterparts and no previously computed output is in the returned table,
\* whatever files come before it in the traversal.
C12_SkipsOnlyTheIncomplete ==
    fpc = "returned" =>
        \A k \in 1..Len(folder_globs) : \A i \in 1..Len(folder_globs[k]) :
            LET file == PathOf(k, folder_globs[k][i])
            IN  (/\ EndsWith(file.name, TifExt)
                 /\ HasOwn(file, ResultsMarker)
                 /\ analog => HasOwn(file, AnalogMarker)
                 /\ with_colabeled => HasOwn(file, ColabeledMarker)
                 /\ ~HasOwn(file, NcExt))
                    => TableHas(file)

\* --------------------------------------------------------------------- C13
\* C13: in every returned group the results, analog and co-label files are
\* those of the primary file's recording: each is named by the primary
\* file's exact stem followed by the fixed marker, so a file of a recording
\* whose stem only starts with this stem is never paired with it.
C13_SameRecording ==
    TableReturned =>
        \A i \in 1..Len(data_files) :
            LET r == data_files[i]
                stem == Fname(r.tif)
            IN  /\ r.caiman.name = stem \o ResultsMarker
                /\ r.analog # NoFile => r.analog.name = stem \o AnalogMarker
                /\ r.colabeled # NoFile => r.colabeled.name = stem \o ColabeledMarker

\* --------------------------------------------------------------------- C14
\* discovery found every counterpart it looked for beside this primary file
NothingMissing(file) ==
    LET k == file.folder
        fname == Fname(file)
    IN  /\ ~Counterpart(analog, k, FolderOf(file), fname, <<"analog">>, <<".txt">>).stop
        /\ ~Counterpart(TRUE, k, FolderOf(file), fname, << >>, <<"results.npz">>).stop
        /\ ~Counterpart(with_colabeled, k, FolderOf(file), fname, <<"_colabeled">>,
                        <<".npy">>).stop

\* C14: a primary file whose own output (same stem, .nc) exists under the
\* root is never returned, so discovery run again after the outputs of all
\* rows were written returns no group; and a primary file that has no output
\* of its own is not passed over on the ground of being analysed already.
C14_SkipsOwnOutputOnly ==
    /\ TableReturned =>
           \A i \in 1..Len(data_files) :
               fpc = "returned" => ~HasOwn(data_files[i].tif, NcExt)
    /\ (fpc = "returned" /\ first_table # NoTable) => data_files = << >>
    /\ fpc = "returned" =>
           \A i \in 1..Len(visited) :
               (NothingMissing(visited[i]) /\ ~HasOwn(visited[i], NcExt))
                   => TableHas(visited[i])

\* --------------------------------------------------------------------- C15
\* C15: the returned table lists the groups in discovery order (folder after
\* folder of folder_globs, each in traversal order) with row index 0, 1, 2,
\* ..., one row for every group found, and the four fields of a row were all
\* found for that row's primary file: the four lists stay in step when files
\* are passed over.
C15_RowsInStep ==
    fpc = "returned" =>
        /\ visited = AllTifs(folder_globs, 1)
        /\ Len(data_files) = Len(fluo_files)
        /\ [i \in 1..Len(data_files) |-> data_files[i].tif]
               = SelectSeq(visited, TableHas)
        /\ \A i \in 1..Len(data_files) :
               LET r == data_files[i]
                   k == r.tif.folder
                   fname == Fname(r.tif)
               IN  /\ r.index = i - 1
                   /\ r.tif = fluo_files[i]
                   /\ r.caiman = Counterpart(TRUE, k, FolderOf(r.tif), fname, << >>,
                                             <<"results.npz">>).file
                   /\ r.analog = Counterpart(analog, k, FolderOf(r.tif), fname,
                                             <<"analog">>, <<".txt">>).file
                   /\ r.colabeled = Counterpart(with_colabeled, k, FolderOf(r.tif),
                                             fname, <<"_colabeled">>, <<".npy">>).file

\* a row of the second folder, listed after a file that was passed over, and
\* a table of two rows
C15_Witness ==
    /\ fpc = "returned"
    /\ \/ /\ Len(data_files) = 1
          /\ data_files[1].tif.folder = 2
          /\ ~TableHas(visited[1])
       \/ /\ Len(data_files) = 2
          /\ data_files[1].caiman # data_files[2].caiman

TimeLengthsDiffer ==
    \E j \in 1..Len(da_list) : \E k \in 1..Len(da_list) :
        Len(da_list[j].time) # Len(da_list[k].time)

\* C17: when the records disagree on time-axis length, the merged result
\* carries one time coordinate, that of the record processed most recently
\* (the last one crd_time was taken from), not the first record's and not a
\* union of the differing coordinates.
C17_AdoptsLatestTime ==
    (cpc = "returned" /\ TimeLengthsDiffer) => merged.time = crd_time

\* --------------------------------------------------------------------- C18
\* the label sets of the epoch coordinates of the records are not all equal
EpochLabels(da) == {da.epoch[i] : i \in 1..Len(da.epoch)}
EpochLabelsDiffer ==
    \E j \in 1..Len(da_list) : \E k \in 1..Len(da_list) :
        EpochLabels(da_list[j]) # EpochLabels(da_list[k])

\* C18: whenever the epoch label sets of the records differ (two records of
\* as many epochs but other labels included), the call ends in an error that
\* reaches the caller; it never returns a merged array in which the data of a
\* record is filed under the epoch labels of another record.
C18_EpochMismatchRaises ==
    /\ (cpc \in {"returned", "raised"} /\ EpochLabelsDiffer) =>
           (cpc = "raised" /\ cerr = "ValueError")
    /\ cpc = "returned" =>
           \A k \in 1..Len(da_list) : merged.epoch = da_list[k].epoch

\* --------------------------------------------------------------------- C19
\* C19: merging all the records but the last and then merging the result
\* with the last record gives every cell the index that merging all the
\* records in one pass gives it (and the two ways raise together).
C19_TwoPassesAgree ==
    stage = "done" =>
        /\ one_pass.raised <=> cpc = "raised"
        /\ ~one_pass.raised =>
               /\ merged.neuron = one_pass.da.neuron
               /\ merged.data = one_pass.da.data
               /\ \A i \in 1..Len(merged.neuron) : merged.neuron[i] = i - 1

\* the chain A, B, C, D of 3, 5, 2 and 1 cells, merged both ways
C19_Witness ==
    /\ stage = "done"
    /\ cpc = "returned"
    /\ Len(chain) = 4
    /\ Len(merged.neuron) = 11
    /\ merged.data[11] = <<4, 0>>
    /\ da_list[1].data[4] = <<2, 0>>
    /\ one_pass.da.data[11] = <<4, 0>>

\* --------------------------------------------------------------------- C20
\* the output _mp_process_timepoints returns for a row of files_table
ResultOfRow(files_row) == [files_row.tif EXCEPT !.ext = ".nc"]

\* C20: after run_batch_of_timepoints the collected list of per-FOV results
\* holds, at entry i, the result of row i of files_table, in every order in
\* which the pool workers complete, and the files of a day are concatenated
\* in that order.
C20_ResultsInRowOrder ==
    /\ bpc \in {"collected", "grouped", "raised"} =>
           /\ list_of_fovs.set
           /\ list_of_fovs.val = [i \in 1..Len(files_table) |->
                                     ResultOfRow(files_table[i])]
    /\ bpc = "grouped" =>
           \A d \in DOMAIN fovs_by_day :
               LET on(f) == DayOf(f) = d
               IN  fovs_by_day[d] =
                       SelectSeq([i \in 1..Len(files_table) |->
                                     ResultOfRow(files_table[i])], on)

\* --------------------------------------------------------------------- C21
\* C21: an error raised while one FOV is processed (in one iteration of the
\* per-file loop of __run_with_analog, or in a pool worker of
\* run_batch_of_timepoints) is caught and the FOV left out; it never ends the
\* batch.
C21_FailingFovExcluded ==
    /\ ~(ppc = "raised" /\ perr = "KeyError")
    /\ ~(bpc = "raised" /\ \E i \in 1..Len(outcomes) : outcomes[i].raised)

\* --------------------------------------------------------------------- C23
\* C23: when the vendor metadata of a recording is missing or malformed,
\* _get_params does not raise: it warns and sets the default sampling rate
\* and a null start time and timestamps, and no parameter keeps a value read
\* from the failed metadata (after a first row that failed, num_of_channels
\* is still unassigned).
C23_FallbackOnBadMetadata ==
    /\ perr # "KeyError"
    /\ warned =>
           /\ self_fps = FallbackFps
           /\ start_time = "None"
           /\ timestamps = NoTimestamps
    /\ (warned /\ Len(row_params) = 1) => "num_of_channels" \in unset

\* --------------------------------------------------------------------- C24
\* C24: every file written by _serialize_results carries the attributes fps,
\* frames_before_occ, frames_during_occ and frames_after_occ, with the values
\* the parser holds, and carries colabeled exactly when co-labeling is
\* enabled; the keys _find_spikes reads are among them, and what it reads is
\* what was written.
C24_AttrsWritten ==
    /\ disk.written <=> disk_keys # {}
    /\ disk.written =>
           /\ FindSpikesKeys \subseteq disk_keys
           /\ disk_keys \subseteq FindSpikesKeys \cup {"colabeled"}
    /\ ppc = "exited" =>
           /\ disk.written
           /\ "colabeled" \in disk_keys <=> with_colabeling
           /\ disk.fps = self_fps
           /\ disk.frames_before_occ = frames_before_stim
           /\ disk.frames_during_occ = len_of_epoch_in_frames
           /\ disk.frames_after_occ = frames_after_stim
    /\ apc # "off" => attrs = disk

\* a file written without co-labeling, read back by _find_spikes
C24_Witness ==
    /\ apc = "returned"
    /\ disk.written
    /\ "colabeled" \notin disk_keys
    /\ Len(num_of_spikes) >= 1

\* --------------------------------------------------------------------- C28
\* C28: when several recordings are processed, the fps and frames_after_occ
\* attributes written with the merged output are the values _get_params
\* found for every one of the recordings, not only those of the last row.
C28_AttrsValidForAllRows ==
    ppc = "exited" =>
        \A i \in 1..Len(row_params) :
            /\ disk.fps = row_params[i].fps
            /\ disk.frames_after_occ = row_params[i].frames_after_stim

\* --------------------------------------------------------------------- C29
\* C29: for every cell _find_spikes has counted, the before count and the
\* unscaled during and after counts (the counts the during and after columns
\* are the scaled values of) sum to the number of 1s in the cell's row of the
\* spike matrix.
C29_EverySpikeCountedOnce ==
    apc \in {"loop", "returned"} =>
        \A r \in 1..Len(idx_section1) :
            LET n == Cardinality(Marks(an_spikes[r]))
            IN  \E c2 \in 0..n : \E c3 \in 0..n :
                    /\ idx_section2[r] = Scale(c2, norm_factor_during)
                    /\ idx_section3[r] = Scale(c3, norm_factor_after)
                    /\ idx_section1[r] + c2 + c3 = n

\* a cell with a spike on the first frame of the after epoch and spikes in
\* the other two epochs
C29_Witness ==
    /\ apc = "returned"
    /\ attrs.frames_before_occ >= 1 /\ attrs.frames_during_occ >= 1
    /\ attrs.frames_after_occ >= 1
    /\ \E r \in 1..Len(dff) :
           /\ (attrs.frames_before_occ + attrs.frames_during_occ) \in Marks(an_spikes[r])
           /\ idx_section1[r] >= 1

\* C22: the output files of distinct rows of a files_table FileFinder
\* produces are pairwise distinct, also when the folders of folder_globs
\* overlap, so that no two workers write the same file.
C22_OutputsPairwiseDistinct ==
    fpc \in {"returned", "serialized"} =>
        \A i \in 1..Len(data_files) : \A j \in 1..Len(data_files) :
            i # j => OutputFile(data_files[i]) # OutputFile(data_files[j])

\* no collision when no two keys of folder_globs overlap
C22_DistinctWithoutOverlap ==
    (fpc \in {"returned", "serialized"} /\ ~overlap) =>
        \A i \in 1..Len(data_files) : \A j \in 1..Len(data_files) :
            i # j => OutputFile(data_files[i]) # OutputFile(data_files[j])
\* --------------------------------------------------------------------- C25
\* generate_da_per_day is over: _concat_fovs returned or raised
GenerateOver == bpc = "done" \/ (bpc = "raised" /\ berr = "AttributeError")

\* the files generate_da_per_day groups
AllFiles == IF list_of_fovs.set THEN list_of_fovs.val ELSE fov_files

\* every file is in the bucket of its day (999 without one) and in no other
BucketsPartition ==
    \A i \in 1..Len(AllFiles) :
        {d \in DOMAIN fovs_by_day :
            \E k \in 1..Len(fovs_by_day[d]) : fovs_by_day[d][k] = AllFiles[i]}
          = {DayOf(AllFiles[i])}

\* C25: generate_da_per_day puts every per-FOV file in exactly one day bucket
\* (999 when the name has no day) and, for every bucket, ends with a file
\* data_of_day_<day>.nc in the results folder.
C25_DayFilePerBucket ==
    GenerateOver =>
        /\ BucketsPartition
        /\ berr = "none"
        /\ \A d \in DOMAIN fovs_by_day : d \in day_files

\* the grouping alone is as the claim says
C25_Grouping == bpc \in {"grouped", "done", "raised"} /\ berr # "TypeError"
                    => BucketsPartition

\* --------------------------------------------------------------------- C26
\* run_batch_of_timepoints is over
BatchOver ==
    \/ bpc = "raised" /\ berr = "TypeError"
    \/ GenerateOver /\ list_of_fovs.set

\* C26: run_batch_of_timepoints ends with the arrays of all FOVs
\* concatenated, whether serialize is True or False; the per-FOV files are
\* written only when serialize is True.
C26_AllFovsConcatenated ==
    /\ BatchOver =>
           /\ berr = "none"
           /\ files_table # << >> =>
                  /\ concat.set
                  /\ \A i \in 1..Len(files_table) :
                         \E k \in 1..Len(concat.val) :
                             concat.val[k] = ResultOfRow(files_table[i])
    /\ (tasks # << >> /\ fov_files # << >>) => serialize

\* --------------------------------------------------------------------- C27
\* C27: _load_colabeled_idx maps index j of file k to j plus the number of
\* cells of the files before it, so that every returned index lies in the
\* block of its own file in the concatenated dF/F: it names cell j of file k.
\* An index at or past the file's number of cells is rejected and never lands
\* in the block of the next file.
C27_IndexInOwnBlock ==
    lpc = "returned" =>
        /\ Len(colabel_idx) = Len(label_table)
        /\ \A k \in 1..Len(colabel_idx) :
               /\ Len(colabel_idx[k]) = Len(label_table[k].colabeled)
               /\ \A m \in 1..Len(colabel_idx[k]) :
                      LET g == colabel_idx[k][m]
                          all_dff == LoadDff(label_table)
                      IN  /\ g + 1 \in 1..Len(all_dff)
                          /\ all_dff[g + 1] = <<k, label_table[k].colabeled[m]>>

\* the indices that are let through are shifted as the claim says
C27_Shifted ==
    lpc = "returned" =>
        \A k \in 1..Len(colabel_idx) : \A m \in 1..Len(colabel_idx[k]) :
            colabel_idx[k][m] = label_table[k].colabeled[m]
                + Len(LoadDff(SubSeq(label_table, 1, k - 1)))

\* an array whose every index is below the number of cells is not rejected
C27_RejectsOnlyBadOrEmpty ==
    (lpc = "raised") =>
        LET r == label_table[label_row]
        IN  \/ r.colabeled = << >>
            \/ \E m \in 1..Len(r.colabeled) : r.colabeled[m] >= r.caiman

\* --------------------------------------------------------------------- C30
\* the rows of an array that hold cell c of file k
RowsOf(arr, k, c) == {p \in 1..Len(arr) : arr[p].file = k /\ arr[p].cell = c}

\* C30: in _stack_dff_arrays the two row cursors never pass the rows
\* _find_max_shape allocated, for every set of files, also when the labeled
\* cells outnumber the unlabeled ones, and each input cell ends in exactly
\* one row of exactly one of the two arrays.
C30_CursorsWithinAllocation ==
    /\ spc \in {"loop", "returned", "raised"} /\ serr # "IndexError" =>
           /\ row_label <= max_shape.num_of_rows
           /\ row_unlabel <= max_shape.num_of_rows
           /\ serr = "none"
    /\ spc = "returned" =>
           \A k \in 1..Len(file_pairs) : \A c \in 0..(file_pairs[k].cells - 1) :
               Cardinality(RowsOf(labeled_data, k, c))
                   + Cardinality(RowsOf(unlabeled_data, k, c)) = 1

\* the claim holds when the labeled cells do not outnumber the unlabeled ones
C30_WhenLabeledAreFewer ==
    SumLabeled(file_pairs) <= SumCells(file_pairs) - SumLabeled(file_pairs) =>
        C30_CursorsWithinAllocation

====
